---- MODULE Spec2Model ----
(***************************************************************************)
(* Verification model of the staking core of Sport-Betting-Bot:            *)
(*   - betting/paper_trader.py   PaperTrader (ledger, bankroll, snapshot)  *)
(*   - utils/risk_management.py  RiskManager (Kelly sizing, bet gating)    *)
(*   - utils/paper_trading.py    PaperTradingEngine (the bot's ledger)     *)
(*   - bot.py                    SportsBettingBot (placing and settling)   *)
(*   - strategies/arbitrage.py, strategies/sports_arbitrage.py             *)
(*   - strategies/clv_strategy.py, analytics/clv_tracker.py                *)
(*                                                                         *)
(* Python numbers are modelled as exact rationals <<n, d>> (d > 0, lowest  *)
(* terms); the rounding of binary floating point is not modelled.          *)
(* Optional values are <<>> (None) or <<v>>.                               *)
(***************************************************************************)
EXTENDS Integers, Sequences, FiniteSets, TLC

VARIABLES
    starting_bankroll,  \* PaperTrader.starting_bankroll
    bankroll,           \* PaperTrader.bankroll
    bets,               \* PaperTrader.bets: list of bet records, in placement order
    bet_counter,        \* PaperTrader.bet_counter
    state_file,         \* content of <data_dir>/paper_trader_state.json
    save_failures,      \* number of failed snapshot writes so far
    from_snapshot,      \* TRUE when load_state filled this PaperTrader from a stored snapshot
    last,               \* the last call on the ledger: its name, return value and log line
    pc,                 \* position of each concurrent place_bet call
    tl,                 \* locals of each concurrent place_bet call
    rm,                 \* the RiskManager object
    rm_last,            \* the last call on the RiskManager: arguments and outcome
    engine,             \* the PaperTradingEngine object the bot runs on
    engine_last,        \* the last call on the engine or the bot: its name and outcome
    bot,                \* SportsBettingBot.run: running, day_count and the position in the loop
    clv_records,        \* CLVTracker.clv_records
    st_last             \* the last call on a strategy object: arguments and outcome

vars == <<starting_bankroll, bankroll, bets, bet_counter, state_file, save_failures,
          from_snapshot, last, pc, tl, rm, rm_last, engine, engine_last, bot,
          clv_records, st_last>>

ledger_vars == <<starting_bankroll, bankroll, bets, bet_counter, state_file,
                 save_failures, from_snapshot, last>>
thread_vars == <<pc, tl>>
risk_vars == <<rm, rm_last>>
engine_vars == <<engine, engine_last, bot>>
strategy_vars == <<clv_records, st_last>>

----------------------------------------------------------------------------
(* Bounds of the model *)

MaxBets == 2            \* placements per run
MaxSaveFailures == 1    \* failed snapshot writes per run

----------------------------------------------------------------------------
(* Exact rational arithmetic standing for Python's float arithmetic *)

Abs(x) == IF x < 0 THEN -x ELSE x

RECURSIVE GCD(_, _)
GCD(a, b) == IF b = 0 THEN a ELSE GCD(b, a % b)

Norm(n, d) ==
    LET s == IF d < 0 THEN -1 ELSE 1
        g == GCD(Abs(n), Abs(d))
    IN  <<(s * n) \div g, (s * d) \div g>>

R(i) == <<i, 1>>
Zero == R(0)
RAdd(x, y) == Norm(x[1] * y[2] + y[1] * x[2], x[2] * y[2])
RNeg(x) == <<-x[1], x[2]>>
RSub(x, y) == RAdd(x, RNeg(y))
RMul(x, y) == Norm(x[1] * y[1], x[2] * y[2])
RDiv(x, y) == Norm(x[1] * y[2], x[2] * y[1])      \* y # Zero
RLt(x, y) == x[1] * y[2] < y[1] * x[2]
RLe(x, y) == x[1] * y[2] <= y[1] * x[2]
RMin(x, y) == IF RLt(y, x) THEN y ELSE x

None == <<>>
Some(v) == <<v>>

----------------------------------------------------------------------------
(* PaperTrader: the bet dictionary and the bet id *)

required_fields == <<"game_id", "sport", "bet_type", "selection", "odds", "stake", "strategy">>

RequiredSet == {required_fields[i] : i \in 1..Len(required_fields)}

\* f"BET-{bet_counter:06d}": the decimal digits of n, zero-padded to width 6
RECURSIVE Digits(_)
Digits(n) == IF n < 10 THEN <<n>> ELSE Append(Digits(n \div 10), n % 10)

RECURSIVE PadLeft(_, _)
PadLeft(ds, w) == IF Len(ds) >= w THEN ds ELSE PadLeft(<<0>> \o ds, w)

BetId(n) == PadLeft(Digits(n), 6)

\* the number an id prints
RECURSIVE IdNumber(_)
IdNumber(ds) == IF ds = <<>> THEN 0 ELSE 10 * IdNumber(SubSeq(ds, 1, Len(ds) - 1)) + ds[Len(ds)]

\* The dictionary the docstring of place_bet describes
FullBet(stake, odds) ==
    [game_id |-> "game_1", sport |-> "NBA", bet_type |-> "moneyline",
     selection |-> "Lakers", odds |-> odds, stake |-> R(stake),
     strategy |-> "test_strategy", sportsbook |-> "test_book"]

Drop(bet, k) == [f \in (DOMAIN bet) \ {k} |-> bet[f]]

\* bet_record = {'id': ..., 'status': 'pending', ..., **bet}: the caller's keys are
\* written last, so a key of bet replaces the default of the same name
BetRecord(bet_id, bet) ==
    bet @@ [id |-> bet_id, timestamp |-> "t", status |-> "pending", result |-> "None",
            profit |-> Zero, closing_line |-> None, settled_at |-> None]

\* Inputs of the model
StartingBankrolls == {200}
Stakes == {-10, 0, 100, 300}
OddsValues == {-110, 150, 0}
Results == {"win", "loss", "push", "void"}
ClosingLines == {None, Some(-120)}
SaveOutcomes == {"ok", "open_failed", "write_failed"}
WritableDir == {"ok"}             \* a data_dir on which every write succeeds

DocumentedBets ==
    {FullBet(100, o) : o \in OddsValues}
    \cup {FullBet(s, -110) : s \in Stakes}
    \cup {Drop(FullBet(100, -110), k) : k \in RequiredSet \cup {"sportsbook"}}

\* the bets and results drawn where writes may fail and the process may restart
PersistBets == {FullBet(100, -110), FullBet(300, -110)}
PersistResults == {"win", "loss", "void"}

----------------------------------------------------------------------------
(* PaperTrader: persistence *)

Snapshot(bk, sb, ctr, bs) ==
    [bankroll |-> bk, starting_bankroll |-> sb, bet_counter |-> ctr, bets |-> bs]

NoFile == [kind |-> "absent"]
CorruptFile == [kind |-> "corrupt"]

\* save_state: open(state_file, 'w') truncates the file, json.dump writes it; any
\* exception is logged and swallowed.  outcome "open_failed": open raised, the file
\* is as it was; "write_failed": the dump raised after the truncation.
save_state(file, snap, outcome) ==
    CASE outcome = "ok" -> [kind |-> "json", state |-> snap]
      [] outcome = "open_failed" -> file
      [] outcome = "write_failed" -> CorruptFile

\* A failed write is drawn only while the model's budget of failures lasts
SaveAllowed(outcome) == outcome = "ok" \/ save_failures < MaxSaveFailures

SaveCount(outcome) == IF outcome = "ok" THEN save_failures ELSE save_failures + 1

\* (variant: the exception of a failed write reaches the caller)
SaveFailureRaises(outcome, ret) == IF outcome = "ok" THEN ret ELSE [kind |-> "raise"]

\* except Exception: logger.error(...): the caller of save_state goes on to its
\* return statement whatever the write did
AfterSave(outcome, ret) == ret

\* __init__ followed by load_state: a readable snapshot replaces the four fields,
\* a missing or unreadable one leaves the freshly constructed values
Loaded(file, arg) ==
    IF file.kind = "json"
    THEN file.state
    ELSE Snapshot(R(arg), R(arg), 0, <<>>)

----------------------------------------------------------------------------
(* PaperTrader: payout and closing line value *)

\* _calculate_payout: total payout including the stake; odds = 0 divides by zero
PayoutRaises(odds) == odds = 0

\* (variant: the positive-odds formula on both branches)
PayoutPositiveFormula(stake, odds) == RAdd(stake, RMul(stake, RDiv(R(Abs(odds)), R(100))))

_calculate_payout(stake, odds) ==
    IF odds > 0
    THEN RAdd(stake, RMul(stake, RDiv(R(odds), R(100))))
    ELSE RAdd(stake, RMul(stake, RDiv(R(100), R(Abs(odds)))))

odds_to_prob(odds) ==
    IF odds > 0
    THEN RDiv(R(100), R(odds + 100))
    ELSE RDiv(R(Abs(odds)), R(Abs(odds) + 100))

ClvRaises(opening_odds, closing_odds) == odds_to_prob(opening_odds) = Zero

_calculate_clv(opening_odds, closing_odds) ==
    LET opening_prob == odds_to_prob(opening_odds)
        closing_prob == odds_to_prob(closing_odds)
    IN  RMul(RDiv(RSub(closing_prob, opening_prob), opening_prob), R(100))

----------------------------------------------------------------------------
(* PaperTrader: place_bet *)

\* for field in required_fields: if field not in bet: return None
MissingField(bet) == \E i \in 1..Len(required_fields) : required_fields[i] \notin DOMAIN bet

\* (variant: >= in place of >)
InsufficientBankrollOrEqual(stake, bk) == RLe(bk, stake)

\* (variant: the stake is not compared with the bankroll)
InsufficientBankrollUnchecked(stake, bk) == FALSE

\* if bet['stake'] > self.bankroll: return None
InsufficientBankroll(stake, bk) == RLt(bk, stake)

\* if bet['stake'] <= 0: return None
InvalidStake(stake) == RLe(stake, Zero)

PlaceRejected(bet, bk) ==
    \/ MissingField(bet)
    \/ InsufficientBankroll(bet.stake, bk)
    \/ InvalidStake(bet.stake)

\* (variant: the counter is not advanced)
NextCounterStuck(ctr) == ctr

\* self.bet_counter += 1
NextCounter(ctr) == ctr + 1

\* self.bankroll -= bet['stake']
Deduct(bk, stake) == RSub(bk, stake)

\* the logger line that tells how the call went
PlaceLog(bet, bk) ==
    IF MissingField(bet) THEN "Missing required field"
    ELSE IF InsufficientBankroll(bet.stake, bk) THEN "Insufficient bankroll"
    ELSE IF InvalidStake(bet.stake) THEN "Invalid stake"
    ELSE "Placed bet"

CallPlace(ret, log) == [op |-> "place_bet", ret |-> ret, log |-> log]

place_bet(bet, Saves) ==
    IF PlaceRejected(bet, bankroll)
    THEN /\ last' = CallPlace([kind |-> "None"], PlaceLog(bet, bankroll))
         /\ UNCHANGED <<starting_bankroll, bankroll, bets, bet_counter, state_file,
                        save_failures>>
    ELSE LET ctr == NextCounter(bet_counter)
             bet_id == BetId(ctr)
             bk == Deduct(bankroll, bet.stake)
             bs == Append(bets, BetRecord(bet_id, bet))
         IN  /\ bet_counter < MaxBets
             /\ bet_counter' = ctr
             /\ bankroll' = bk
             /\ bets' = bs
             /\ \E save \in Saves :
                   /\ SaveAllowed(save)
                   /\ state_file' = save_state(state_file,
                                       Snapshot(bk, starting_bankroll, ctr, bs), save)
                   /\ save_failures' = SaveCount(save)
                   /\ last' = CallPlace(AfterSave(save, [kind |-> "id", id |-> bet_id]),
                                        PlaceLog(bet, bankroll))
             /\ UNCHANGED starting_bankroll

PlaceBet ==
    /\ \E bet \in DocumentedBets : place_bet(bet, WritableDir)
    /\ UNCHANGED <<from_snapshot, thread_vars, risk_vars, engine_vars, strategy_vars>>

\* keys a caller may add to the documented dictionary: one the record does not use, and
\* the keys the record sets itself
ExtraKeys ==
    {[notes |-> "x"], [status |-> "settled"], [result |-> "win"], [profit |-> R(50)],
     [settled_at |-> Some("t0")], [id |-> <<7>>]}

ExtraKeyBets == {extra @@ FullBet(50, -110) : extra \in ExtraKeys}

PlaceBetExtraKeys ==
    /\ \E bet \in ExtraKeyBets : place_bet(bet, WritableDir)
    /\ UNCHANGED <<from_snapshot, thread_vars, risk_vars, engine_vars, strategy_vars>>

PlaceBetUnreliable ==
    /\ \E bet \in PersistBets : place_bet(bet, SaveOutcomes)
    /\ UNCHANGED <<from_snapshot, thread_vars, risk_vars, engine_vars, strategy_vars>>

----------------------------------------------------------------------------
(* PaperTrader: place_bet called from two threads on one object.  The class takes no
   lock, so the interpreter may switch threads between any two attribute accesses:
   each step below is one read or one write of a field of the shared object. *)

Threads == {1, 2}

IdleLocals == [bet |-> None, read |-> Zero, ctr |-> 0, id |-> <<>>, ret |-> [kind |-> "None"]]

\* the call is made; the required-field loop reads only the argument
ThreadCall(t) ==
    /\ pc[t] = "idle"
    /\ \E bet \in DocumentedBets :
          /\ tl' = [tl EXCEPT ![t] = [IdleLocals EXCEPT !.bet = Some(bet)]]
          /\ pc' = [pc EXCEPT ![t] = IF MissingField(bet) THEN "return" ELSE "validate"]
    /\ UNCHANGED <<ledger_vars, risk_vars, engine_vars, strategy_vars>>

\* lines 79-85: self.bankroll is read once, for the comparison
ThreadValidate(t) ==
    /\ pc[t] = "validate"
    /\ LET stake == tl[t].bet[1].stake
       IN  pc' = [pc EXCEPT ![t] =
                     IF InsufficientBankroll(stake, bankroll) \/ InvalidStake(stake)
                     THEN "return" ELSE "counter_read"]
    /\ UNCHANGED <<tl, ledger_vars, risk_vars, engine_vars, strategy_vars>>

\* line 88, self.bet_counter += 1: the read
ThreadCounterRead(t) ==
    /\ pc[t] = "counter_read"
    /\ tl' = [tl EXCEPT ![t].ctr = bet_counter]
    /\ pc' = [pc EXCEPT ![t] = "counter_write"]
    /\ UNCHANGED <<ledger_vars, risk_vars, engine_vars, strategy_vars>>

\* line 88, self.bet_counter += 1: the write
ThreadCounterWrite(t) ==
    /\ pc[t] = "counter_write"
    /\ bet_counter' = NextCounter(tl[t].ctr)
    /\ pc' = [pc EXCEPT ![t] = "format_id"]
    /\ UNCHANGED <<tl, starting_bankroll, bankroll, bets, state_file, save_failures,
                   from_snapshot, last, risk_vars, engine_vars, strategy_vars>>

\* line 89: bet_id is formatted from a fresh read of self.bet_counter
ThreadFormatId(t) ==
    /\ pc[t] = "format_id"
    /\ tl' = [tl EXCEPT ![t].id = BetId(bet_counter)]
    /\ pc' = [pc EXCEPT ![t] = "bankroll_read"]
    /\ UNCHANGED <<ledger_vars, risk_vars, engine_vars, strategy_vars>>

\* line 103, self.bankroll -= bet['stake']: the read
ThreadBankrollRead(t) ==
    /\ pc[t] = "bankroll_read"
    /\ tl' = [tl EXCEPT ![t].read = bankroll]
    /\ pc' = [pc EXCEPT ![t] = "bankroll_write"]
    /\ UNCHANGED <<ledger_vars, risk_vars, engine_vars, strategy_vars>>

\* line 103, self.bankroll -= bet['stake']: the write
ThreadBankrollWrite(t) ==
    /\ pc[t] = "bankroll_write"
    /\ bankroll' = Deduct(tl[t].read, tl[t].bet[1].stake)
    /\ pc' = [pc EXCEPT ![t] = "append"]
    /\ UNCHANGED <<tl, starting_bankroll, bets, bet_counter, state_file, save_failures,
                   from_snapshot, last, risk_vars, engine_vars, strategy_vars>>

\* line 106: self.bets.append(bet_record)
ThreadAppend(t) ==
    /\ pc[t] = "append"
    /\ bets' = Append(bets, BetRecord(tl[t].id, tl[t].bet[1]))
    /\ pc' = [pc EXCEPT ![t] = "save"]
    /\ UNCHANGED <<tl, starting_bankroll, bankroll, bet_counter, state_file, save_failures,
                   from_snapshot, last, risk_vars, engine_vars, strategy_vars>>

\* line 113: self.save_state() writes the fields as they are now
ThreadSave(t) ==
    /\ pc[t] = "save"
    /\ \E save \in SaveOutcomes :
          /\ SaveAllowed(save)
          /\ state_file' = save_state(state_file,
                              Snapshot(bankroll, starting_bankroll, bet_counter, bets), save)
          /\ save_failures' = SaveCount(save)
    /\ tl' = [tl EXCEPT ![t].ret = [kind |-> "id", id |-> tl[t].id]]
    /\ pc' = [pc EXCEPT ![t] = "return"]
    /\ UNCHANGED <<starting_bankroll, bankroll, bets, bet_counter, from_snapshot, last,
                   risk_vars, engine_vars, strategy_vars>>

\* the call returns tl[t].ret: None from an early return, the id otherwise
ThreadReturn(t) ==
    /\ pc[t] = "return"
    /\ pc' = [pc EXCEPT ![t] = "done"]
    /\ UNCHANGED <<tl, ledger_vars, risk_vars, engine_vars, strategy_vars>>

----------------------------------------------------------------------------
(* PaperTrader: settle_bet *)

ValidResult(result) == result \in {"win", "loss", "push"}

\* next((b for b in self.bets if b['id'] == bet_id), None): index of the first match, 0 for None
FindBet(bs, bet_id) ==
    IF \E i \in 1..Len(bs) : bs[i].id = bet_id
    THEN CHOOSE i \in 1..Len(bs) : bs[i].id = bet_id /\ \A j \in 1..(i - 1) : bs[j].id # bet_id
    ELSE 0

\* profit = 0, then the if/elif chain on result
SettleProfit(bet, result) ==
    CASE result = "win" -> RSub(_calculate_payout(bet.stake, bet.odds), bet.stake)
      [] result = "loss" -> RNeg(bet.stake)
      [] OTHER -> Zero

\* (variant: a win credits the winnings without the stake)
SettleCreditWinningsOnly(bet, result, profit) ==
    CASE result = "win" -> profit
      [] result = "push" -> bet.stake
      [] OTHER -> Zero

\* what the settlement adds to self.bankroll
SettleCredit(bet, result, profit) ==
    CASE result = "win" -> RAdd(bet.stake, profit)
      [] result = "push" -> bet.stake
      [] OTHER -> Zero

\* (variant: the status is left as it was)
SettledStatusKept(bet, result, profit) ==
    [bet EXCEPT !.result = result, !.profit = profit, !.settled_at = Some("t")]

\* bet['status'] = 'settled'; bet['result'] = result; bet['profit'] = profit; bet['settled_at'] = now
Settled(bet, result, profit) ==
    [bet EXCEPT !.status = "settled", !.result = result, !.profit = profit,
                !.settled_at = Some("t")]

\* if closing_line: (None and 0 are both false)
Truthy(closing_line) == closing_line # None /\ closing_line[1] # 0

\* bet['closing_line'] = closing_line
WithClosingLine(bet, closing_line) == [bet EXCEPT !.closing_line = closing_line]

\* bet['clv'] = self._calculate_clv(bet['odds'], closing_line)
WithClv(bet, closing_line) ==
    [clv |-> _calculate_clv(bet.odds, closing_line[1])] @@ bet

CallSettle(ret, log) == [op |-> "settle_bet", ret |-> ret, log |-> log]

\* (variant: no check of bet['status'])
SettleErrorNoStatusCheck(bs, bet_id, result) ==
    IF ~ValidResult(result) THEN "Invalid result"
    ELSE IF FindBet(bs, bet_id) = 0 THEN "Bet not found"
    ELSE "None"

\* the three early returns of settle_bet, "None" when none is taken
SettleError(bs, bet_id, result) ==
    IF ~ValidResult(result) THEN "Invalid result"
    ELSE IF FindBet(bs, bet_id) = 0 THEN "Bet not found"
    ELSE IF bs[FindBet(bs, bet_id)].status # "pending" THEN "Bet already settled"
    ELSE "None"

settle_bet(bet_id, result, closing_line, Saves) ==
    LET err == SettleError(bets, bet_id, result)
        i == FindBet(bets, bet_id)
    IN  IF err # "None"
        THEN /\ last' = CallSettle([kind |-> "error", error |-> err], err)
             /\ UNCHANGED <<starting_bankroll, bankroll, bets, bet_counter, state_file,
                            save_failures>>
        ELSE IF result = "win" /\ PayoutRaises(bets[i].odds)
        THEN \* ZeroDivisionError in _calculate_payout, before anything is written
             /\ last' = CallSettle([kind |-> "raise"], "ZeroDivisionError")
             /\ UNCHANGED <<starting_bankroll, bankroll, bets, bet_counter, state_file,
                            save_failures>>
        ELSE LET profit == SettleProfit(bets[i], result)
                 bk == RAdd(bankroll, SettleCredit(bets[i], result, profit))
                 b1 == Settled(bets[i], result, profit)
             IN  IF Truthy(closing_line) /\ ClvRaises(bets[i].odds, closing_line[1])
                 THEN \* ZeroDivisionError in _calculate_clv: the bankroll and the bet are
                      \* already written, save_state is not reached
                      /\ bankroll' = bk
                      /\ bets' = [bets EXCEPT ![i] = WithClosingLine(b1, closing_line)]
                      /\ last' = CallSettle([kind |-> "raise"], "ZeroDivisionError")
                      /\ UNCHANGED <<starting_bankroll, bet_counter, state_file, save_failures>>
                 ELSE LET b2 == IF Truthy(closing_line)
                                THEN WithClv(WithClosingLine(b1, closing_line), closing_line)
                                ELSE b1
                          bs == [bets EXCEPT ![i] = b2]
                      IN  /\ bankroll' = bk
                          /\ bets' = bs
                          /\ \E save \in Saves :
                                /\ SaveAllowed(save)
                                /\ state_file' = save_state(state_file,
                                       Snapshot(bk, starting_bankroll, bet_counter, bs), save)
                                /\ save_failures' = SaveCount(save)
                                /\ last' = CallSettle(
                                       AfterSave(save, [kind |-> "settlement", bet_id |-> bet_id,
                                                        result |-> result, profit |-> profit,
                                                        bankroll |-> bk]),
                                       "Settled bet")
                          /\ UNCHANGED <<starting_bankroll, bet_counter>>

\* ids a caller may pass: every id place_bet can have returned, and one it has not
KnownIds == {BetId(n) : n \in 1..(MaxBets + 1)}

SettleBet ==
    /\ \E bet_id \in KnownIds, result \in Results, cl \in ClosingLines :
          settle_bet(bet_id, result, cl, WritableDir)
    /\ UNCHANGED <<from_snapshot, thread_vars, risk_vars, engine_vars, strategy_vars>>

SettleBetUnreliable ==
    /\ \E bet_id \in KnownIds, result \in PersistResults :
          settle_bet(bet_id, result, None, SaveOutcomes)
    /\ UNCHANGED <<from_snapshot, thread_vars, risk_vars, engine_vars, strategy_vars>>

----------------------------------------------------------------------------
(* PaperTrader: construction on an existing data_dir *)

CallInit == [op |-> "init", ret |-> [kind |-> "None"], log |-> "PaperTrader initialized"]

Restart ==
    /\ \E arg \in StartingBankrolls :
          LET st == Loaded(state_file, arg)
          IN  /\ starting_bankroll' = st.starting_bankroll
              /\ bankroll' = st.bankroll
              /\ bet_counter' = st.bet_counter
              /\ bets' = st.bets
    /\ from_snapshot' = (state_file.kind = "json")
    /\ last' = CallInit
    /\ UNCHANGED <<state_file, save_failures, thread_vars, risk_vars, engine_vars,
                   strategy_vars>>

----------------------------------------------------------------------------
(* RiskManager *)

\* RiskManager.__init__ with the default limits
DefaultDailyLoss == <<1, 10>>       \* max_daily_loss_percent = 0.10
DefaultDrawdown == <<1, 5>>         \* max_total_drawdown_percent = 0.20
DefaultConcurrent == 10             \* max_concurrent_bets = 10
DefaultKelly == <<1, 4>>            \* kelly_fraction = 0.25
KellyCap == <<1, 20>>               \* min(kelly_fraction_adjusted, 0.05)

RiskManagerInit(starting, kelly) ==
    [starting_bankroll |-> R(starting), peak_bankroll |-> R(starting),
     max_daily_loss_percent |-> DefaultDailyLoss,
     max_total_drawdown_percent |-> DefaultDrawdown,
     max_concurrent_bets |-> DefaultConcurrent,
     kelly_fraction |-> kelly]

\* Inputs of the model
RiskStartingBankrolls == {10000, 0}
KellyFractions == {DefaultKelly, <<1, 1>>}
RiskBankrolls == {0, 7999, 8000, 8001, 9600, 10000, 12000}
RiskStakes == {0, 100, 600, 20000}
PendingCounts == {0, 9, 10, 11}
TodayPnls == {-1000, -999, -500, 0, 700}
WinProbabilities == {<<0, 1>>, <<1, 2>>, <<11, 21>>, <<11, 20>>, <<3, 5>>, <<1, 1>>}
RiskOdds == {-110, -200, 100, 150, 0}

\* American odds to decimal odds; odds = 0 divides by zero
DecimalOdds(odds) ==
    IF odds > 0
    THEN RAdd(RDiv(R(odds), R(100)), R(1))
    ELSE RAdd(RDiv(R(100), R(Abs(odds))), R(1))

\* kelly_fraction_adjusted before the sign test and the cap
KellyAdjusted(r, win_probability, odds) ==
    LET b == RSub(DecimalOdds(odds), R(1))
        q == RSub(R(1), win_probability)
        kelly_fraction_full == RDiv(RSub(RMul(b, win_probability), q), b)
    IN  RMul(kelly_fraction_full, r.kelly_fraction)

\* (variant: the 5% cap is left out)
PositionSizeUncapped(r, current_bankroll, win_probability, odds) ==
    LET f == KellyAdjusted(r, win_probability, odds)
    IN  IF RLt(f, Zero) THEN Zero ELSE RMul(current_bankroll, f)

calculate_position_size(r, current_bankroll, win_probability, odds) ==
    LET f == KellyAdjusted(r, win_probability, odds)
    IN  IF RLt(f, Zero)
        THEN Zero
        ELSE RMul(current_bankroll, RMin(f, KellyCap))

\* the five checks of check_bet_allowed, each true when it rejects
ConcurrentLimitHit(r, pending_bet_count) == pending_bet_count >= r.max_concurrent_bets

StakeExceedsBankroll(current_bankroll, proposed_stake) == RLt(current_bankroll, proposed_stake)

MaxDailyLoss(r) == RMul(r.starting_bankroll, r.max_daily_loss_percent)

DailyLossReached(r, today_pnl) ==
    RLt(today_pnl, Zero) /\ RLe(MaxDailyLoss(r), RNeg(today_pnl))

WouldExceedDailyLoss(r, proposed_stake, today_pnl) ==
    RLt(RSub(today_pnl, proposed_stake), RNeg(MaxDailyLoss(r)))

Drawdown(r, current_bankroll) ==
    RDiv(RSub(r.peak_bankroll, current_bankroll), r.peak_bankroll)

DrawdownReached(r, current_bankroll) ==
    RLe(r.max_total_drawdown_percent, Drawdown(r, current_bankroll))

\* (variant: the bankroll check is made before the concurrent-bet check)
CheckStakeBeforeConcurrency(r, current_bankroll, proposed_stake, pending_bet_count, today_pnl) ==
    IF StakeExceedsBankroll(current_bankroll, proposed_stake)
    THEN [kind |-> "tuple", allowed |-> FALSE, reason |-> "Insufficient bankroll"]
    ELSE IF ConcurrentLimitHit(r, pending_bet_count)
    THEN [kind |-> "tuple", allowed |-> FALSE, reason |-> "Max concurrent bets reached"]
    ELSE IF DailyLossReached(r, today_pnl)
    THEN [kind |-> "tuple", allowed |-> FALSE, reason |-> "Daily loss limit reached"]
    ELSE IF WouldExceedDailyLoss(r, proposed_stake, today_pnl)
    THEN [kind |-> "tuple", allowed |-> FALSE, reason |-> "Bet would exceed daily loss limit"]
    ELSE IF r.peak_bankroll = Zero
    THEN [kind |-> "raise"]
    ELSE IF DrawdownReached(r, current_bankroll)
    THEN [kind |-> "tuple", allowed |-> FALSE, reason |-> "Max drawdown reached"]
    ELSE [kind |-> "tuple", allowed |-> TRUE, reason |-> "OK"]

\* the (allowed, reason) pair, or the ZeroDivisionError of the drawdown check at peak 0
check_bet_allowed(r, current_bankroll, proposed_stake, pending_bet_count, today_pnl) ==
    IF ConcurrentLimitHit(r, pending_bet_count)
    THEN [kind |-> "tuple", allowed |-> FALSE, reason |-> "Max concurrent bets reached"]
    ELSE IF StakeExceedsBankroll(current_bankroll, proposed_stake)
    THEN [kind |-> "tuple", allowed |-> FALSE, reason |-> "Insufficient bankroll"]
    ELSE IF DailyLossReached(r, today_pnl)
    THEN [kind |-> "tuple", allowed |-> FALSE, reason |-> "Daily loss limit reached"]
    ELSE IF WouldExceedDailyLoss(r, proposed_stake, today_pnl)
    THEN [kind |-> "tuple", allowed |-> FALSE, reason |-> "Bet would exceed daily loss limit"]
    ELSE IF r.peak_bankroll = Zero
    THEN [kind |-> "raise"]
    ELSE IF DrawdownReached(r, current_bankroll)
    THEN [kind |-> "tuple", allowed |-> FALSE, reason |-> "Max drawdown reached"]
    ELSE [kind |-> "tuple", allowed |-> TRUE, reason |-> "OK"]

\* (variant: every approval sets the peak to the bankroll of the call)
PeakAfterApproval(r, current_bankroll, ret) ==
    IF ret.kind = "tuple" /\ ret.allowed THEN current_bankroll ELSE r.peak_bankroll

\* if current_bankroll > self.peak_bankroll: self.peak_bankroll = current_bankroll
PeakAfter(r, current_bankroll, ret) ==
    IF ret.kind = "tuple" /\ ret.allowed /\ RLt(r.peak_bankroll, current_bankroll)
    THEN current_bankroll
    ELSE r.peak_bankroll

get_current_drawdown(r, current_bankroll) ==
    IF r.peak_bankroll = Zero THEN Zero ELSE Drawdown(r, current_bankroll)

\* (variant: > in place of >=)
ShouldHaltStrict(r, current_bankroll) ==
    RLt(r.max_total_drawdown_percent, get_current_drawdown(r, current_bankroll))

should_halt_trading(r, current_bankroll) ==
    RLe(r.max_total_drawdown_percent, get_current_drawdown(r, current_bankroll))

NoArgs == [current_bankroll |-> Zero, proposed_stake |-> Zero, pending_bet_count |-> 0,
           today_pnl |-> Zero, win_probability |-> Zero, odds |-> 0]

RiskCall(op, args, ret) == [op |-> op, args |-> args, ret |-> ret, before |-> rm]

CheckBetAllowed ==
    /\ \E bk \in RiskBankrolls, st \in RiskStakes, n \in PendingCounts, pnl \in TodayPnls :
          LET ret == check_bet_allowed(rm, R(bk), R(st), n, R(pnl))
          IN  /\ rm' = [rm EXCEPT !.peak_bankroll = PeakAfter(rm, R(bk), ret)]
              /\ rm_last' = RiskCall("check_bet_allowed",
                                [NoArgs EXCEPT !.current_bankroll = R(bk), !.proposed_stake = R(st),
                                               !.pending_bet_count = n, !.today_pnl = R(pnl)],
                                ret)
    /\ UNCHANGED <<ledger_vars, thread_vars, engine_vars, strategy_vars>>

ShouldHaltTrading ==
    /\ \E bk \in RiskBankrolls :
          rm_last' = RiskCall("should_halt_trading", [NoArgs EXCEPT !.current_bankroll = R(bk)],
                              [kind |-> "bool", value |-> should_halt_trading(rm, R(bk))])
    /\ UNCHANGED <<rm, ledger_vars, thread_vars, engine_vars, strategy_vars>>

CalculatePositionSize ==
    /\ \E bk \in RiskBankrolls, p \in WinProbabilities, o \in RiskOdds :
          rm_last' = RiskCall("calculate_position_size",
                              [NoArgs EXCEPT !.current_bankroll = R(bk), !.win_probability = p,
                                             !.odds = o],
                              IF o = 0
                              THEN [kind |-> "raise"]
                              ELSE [kind |-> "number",
                                    value |-> calculate_position_size(rm, R(bk), p, o)])
    /\ UNCHANGED <<rm, ledger_vars, thread_vars, engine_vars, strategy_vars>>

----------------------------------------------------------------------------
(* PaperTradingEngine: the ledger the bot runs on *)

\* PaperTradingEngine(starting_bankroll, realistic_mode)
EngineInit(sb, realistic) ==
    [starting_bankroll |-> R(sb), current_bankroll |-> R(sb), realistic_mode |-> realistic,
     bets |-> <<>>, completed_bets |-> <<>>]

\* f"BET-{len(self.bets) + 1:05d}": numbered by the length of the pending list
EngineBetId(n) == PadLeft(Digits(n), 5)

\* Inputs of the model.  OddsMovements: 0 stands for "the odds did not move"; the
\* code moves them by one of -5, -10, 5, 10 with probability 0.1
EngineStartingBankrolls == {500}
EngineOdds == {-110, 150, 0}
EngineStakes == {0, 100, 600}
OddsMovements == {0, 10}
EngineClosingLines == {None, Some(-120)}
EngineIds == {EngineBetId(n) : n \in 1..2}

EngineBet(e, side, odds, stake) ==
    [id |-> EngineBetId(Len(e.bets) + 1), timestamp |-> "t", sport |-> "nba",
     game |-> "game_1", bet_type |-> "spread", side |-> side, odds |-> odds,
     stake |-> stake, strategy |-> "clv_model", sportsbook |-> "paper",
     status |-> "pending", result |-> "None", profit |-> Zero, closing_line |-> None]

\* place_bet: the two stake checks, the simulated line movement, then the append and
\* the deduction; returns the bet, or None
engine_place_bet(e, side, odds, stake, movement) ==
    IF RLt(e.current_bankroll, stake) \/ RLe(stake, Zero)
    THEN [engine |-> e, ret |-> None]
    ELSE LET moved == IF e.realistic_mode THEN odds + movement ELSE odds
             bet == EngineBet(e, side, moved, stake)
         IN  [engine |-> [e EXCEPT !.bets = Append(@, bet),
                                   !.current_bankroll = RSub(@, stake)],
              ret |-> Some(bet)]

\* next((b for b in self.bets if b['id'] == bet_id), None): index of the first match
EngineFind(e, bet_id) ==
    IF \E i \in 1..Len(e.bets) : e.bets[i].id = bet_id
    THEN CHOOSE i \in 1..Len(e.bets) :
            e.bets[i].id = bet_id /\ \A j \in 1..(i - 1) : e.bets[j].id # bet_id
    ELSE 0

\* (variant: the profit of a win is the winnings, and the stake is returned with them)
EngineWinProfitWinnings(stake, odds) == RSub(_calculate_payout(stake, odds), stake)

\* profit = self._calculate_payout(bet['stake'], bet['odds']): the total payout,
\* stake included (the engine's _calculate_payout is that of PaperTrader)
EngineWinProfit(stake, odds) == _calculate_payout(stake, odds)

\* self.bets.remove(bet)
RemoveAt(seq, i) == SubSeq(seq, 1, i - 1) \o SubSeq(seq, i + 1, Len(seq))

\* settle_bet: returns None on every path; "log" tells which path was taken
engine_settle_bet(e, bet_id, won, closing_line) ==
    LET i == EngineFind(e, bet_id)
    IN  IF i = 0
        THEN [engine |-> e, log |-> "Bet not found"]
        ELSE IF e.bets[i].status # "pending"
        THEN [engine |-> e, log |-> "Bet already settled"]
        ELSE IF won /\ PayoutRaises(e.bets[i].odds)
        THEN [engine |-> e, log |-> "ZeroDivisionError"]
        ELSE LET bet == e.bets[i]
                 profit == IF won THEN EngineWinProfit(bet.stake, bet.odds)
                           ELSE RNeg(bet.stake)
                 b1 == [bet EXCEPT !.result = IF won THEN "win" ELSE "loss",
                                   !.profit = profit, !.status = "settled"]
                 b2 == [settled_at |-> "t"] @@ b1
                 b3 == IF Truthy(closing_line)
                       THEN [b2 EXCEPT !.closing_line = closing_line]
                       ELSE b2
             IN  [engine |-> [e EXCEPT !.current_bankroll =
                                           IF won THEN RAdd(@, profit) ELSE @,
                                       !.completed_bets = Append(@, b3),
                                       !.bets = RemoveAt(@, i)],
                  log |-> "Settled bet"]

\* bets placed on the engine so far
EnginePlaced(e) == Len(e.bets) + Len(e.completed_bets)

EngineCall(op, ret, log) == [op |-> op, ret |-> ret, log |-> log]

EnginePlaceBet ==
    /\ \E o \in EngineOdds, st \in EngineStakes, mv \in OddsMovements :
          LET r == engine_place_bet(engine, "home", o, R(st), mv)
          IN  /\ r.ret # None => EnginePlaced(engine) < MaxBets
              /\ engine' = r.engine
              /\ engine_last' = EngineCall("place_bet", r.ret,
                                    IF r.ret = None THEN "rejected" ELSE "Placed bet")
    /\ UNCHANGED <<ledger_vars, thread_vars, risk_vars, strategy_vars, bot>>

EngineSettleBet ==
    /\ \E bet_id \in EngineIds, won \in BOOLEAN, cl \in EngineClosingLines :
          LET r == engine_settle_bet(engine, bet_id, won, cl)
          IN  /\ engine' = r.engine
              /\ engine_last' = EngineCall("settle_bet", None, r.log)
    /\ UNCHANGED <<ledger_vars, thread_vars, risk_vars, strategy_vars, bot>>

----------------------------------------------------------------------------
(* CLVStrategy.calculate_clv and CLVTracker.track_bet_clv: closing line value in points *)

MaxClvRecords == 2      \* direct track_bet_clv calls per run

\* Inputs of the model: spread lines of the home team, in points
ClvLines == {<<-11, 2>>, <<-8, 1>>, <<-3, 1>>}
ClvSides == {"home", "away"}

\* home: closing_line - bet_line; any other side: bet_line - closing_line
ClvPoints(side, bet_line, closing_line) ==
    IF side = "home" THEN RSub(closing_line, bet_line) ELSE RSub(bet_line, closing_line)

\* (variant: the line of the docstring example counts in the bettor's favour)
ClvPointsDocstring(side, bet_line, closing_line) ==
    IF side = "home" THEN RSub(bet_line, closing_line) ELSE RSub(closing_line, bet_line)

calculate_clv(bet, closing_line) == ClvPoints(bet.side, bet.bet_line, closing_line)

\* bet.get('bet_line', bet.get('odds', 0)) and bet.get('side', 'home')
TrackedLine(bet) ==
    IF "bet_line" \in DOMAIN bet THEN bet.bet_line
    ELSE IF "odds" \in DOMAIN bet THEN R(bet.odds)
    ELSE Zero

TrackedSide(bet) == IF "side" \in DOMAIN bet THEN bet.side ELSE "home"

Get(bet, key) == IF key \in DOMAIN bet THEN Some(bet[key]) ELSE None

\* track_bet_clv: appends one record to clv_records
track_bet_clv(records, bet, closing_line) ==
    Append(records,
           [bet_id |-> Get(bet, "id"), sport |-> Get(bet, "sport"),
            strategy |-> Get(bet, "strategy"), bet_line |-> TrackedLine(bet),
            closing_line |-> closing_line,
            clv |-> ClvPoints(TrackedSide(bet), TrackedLine(bet), closing_line),
            side |-> TrackedSide(bet)])

StrategyCall(op, args, ret) == [op |-> op, args |-> args, ret |-> ret]

SpreadBet(side, bet_line) == [id |-> "b", sport |-> "nba", strategy |-> "clv_model",
                              side |-> side, bet_line |-> bet_line]

CalculateClv ==
    /\ \E side \in ClvSides, bet_line \in ClvLines, closing_line \in ClvLines :
          st_last' = StrategyCall("CLVStrategy.calculate_clv",
                         [side |-> side, bet_line |-> bet_line, closing_line |-> closing_line],
                         Some(calculate_clv(SpreadBet(side, bet_line), closing_line)))
    /\ UNCHANGED <<clv_records, ledger_vars, thread_vars, risk_vars, engine_vars>>

TrackBetClv ==
    /\ Len(clv_records) < MaxClvRecords
    /\ \E side \in ClvSides, bet_line \in ClvLines, closing_line \in ClvLines :
          /\ clv_records' = track_bet_clv(clv_records, SpreadBet(side, bet_line), closing_line)
          /\ st_last' = StrategyCall("CLVTracker.track_bet_clv",
                            [side |-> side, bet_line |-> bet_line,
                             closing_line |-> closing_line],
                            None)
    /\ UNCHANGED <<ledger_vars, thread_vars, risk_vars, engine_vars>>

----------------------------------------------------------------------------
(* ArbitrageStrategy: strategies/arbitrage.py *)

DefaultMinProfitMargin == <<1, 100>>        \* min_profit_margin = 0.01
ArbTotalStake == 100                        \* total_stake = 100

\* _american_to_decimal is DecimalOdds; odds = 0 divides by zero
AmericanRaises(odds) == odds = 0

\* round(x, 2): the nearest multiple of 0.01, a tie going to the even one
Round2(x) ==
    LET n == x[1] * 100
        q == n \div x[2]
        twice == 2 * (n - q * x[2])
        cents == IF twice < x[2] THEN q
                 ELSE IF twice > x[2] THEN q + 1
                 ELSE IF q % 2 = 0 THEN q ELSE q + 1
    IN  Norm(cents, 100)

\* (variant: <= in place of <)
CalculateArbitrageInclusive(odds1, odds2) ==
    LET total_prob == RAdd(RDiv(R(1), DecimalOdds(odds1)), RDiv(R(1), DecimalOdds(odds2)))
        is_arbitrage == RLe(total_prob, R(1))
    IN  [is_arbitrage |-> is_arbitrage,
         profit_margin |-> IF is_arbitrage THEN RSub(R(1), total_prob) ELSE Zero,
         total_implied_prob |-> total_prob]

_calculate_arbitrage(odds1, odds2) ==
    LET decimal1 == DecimalOdds(odds1)
        decimal2 == DecimalOdds(odds2)
        implied_prob1 == RDiv(R(1), decimal1)
        implied_prob2 == RDiv(R(1), decimal2)
        total_prob == RAdd(implied_prob1, implied_prob2)
        is_arbitrage == RLt(total_prob, R(1))
    IN  [is_arbitrage |-> is_arbitrage,
         profit_margin |-> IF is_arbitrage THEN RSub(R(1), total_prob) ELSE Zero,
         total_implied_prob |-> total_prob]

\* stake1 = total_stake / (1 + decimal1 / decimal2); stake2 = total_stake - stake1
BetSizeExact(odds1, odds2, total_stake) ==
    LET stake1 == RDiv(total_stake, RAdd(R(1), RDiv(DecimalOdds(odds1), DecimalOdds(odds2))))
    IN  [bet1 |-> stake1, bet2 |-> RSub(total_stake, stake1)]

_calculate_bet_sizes(odds1, odds2, total_stake) ==
    [bet1 |-> Round2(BetSizeExact(odds1, odds2, total_stake).bet1),
     bet2 |-> Round2(BetSizeExact(odds1, odds2, total_stake).bet2)]

\* the outcomes of one market over all bookmakers, in the order the loops visit them
RECURSIVE Entries(_, _)
Entries(bookmakers, market) ==
    IF bookmakers = <<>> THEN <<>>
    ELSE LET b == Head(bookmakers)
         IN  [i \in 1..Len(b[market]) |->
                 [bookmaker |-> b.name, name |-> b[market][i].name,
                  price |-> b[market][i].price, point |-> b[market][i].point]]
             \o Entries(Tail(bookmakers), market)

\* (variant: the price with the larger magnitude is taken as the better one)
HigherMagnitude(price, best_odds) == Abs(price) > Abs(best_odds)

\* odds_value > best['odds']: the American prices are compared as numbers
HigherOdds(price, best_odds) == price > best_odds

\* the running best quote of one side: replaced when there is none yet or the price is higher
RECURSIVE BestQuote(_, _, _)
BestQuote(entries, name, best) ==
    IF entries = <<>> THEN best
    ELSE LET en == Head(entries)
         IN  BestQuote(Tail(entries), name,
                       IF en.name = name /\ (best = None \/ HigherOdds(en.price, best[1].odds))
                       THEN Some([odds |-> en.price, bookmaker |-> en.bookmaker])
                       ELSE best)

Opportunity(bet_type, sel1, sel2, q1, q2, arb) ==
    LET bet_sizes == _calculate_bet_sizes(q1.odds, q2.odds, R(ArbTotalStake))
    IN  [bet_type |-> bet_type,
         leg1 |-> [selection |-> sel1, odds |-> q1.odds, bookmaker |-> q1.bookmaker,
                   stake |-> bet_sizes.bet1],
         leg2 |-> [selection |-> sel2, odds |-> q2.odds, bookmaker |-> q2.bookmaker,
                   stake |-> bet_sizes.bet2],
         profit_margin |-> arb.profit_margin,
         total_stake |-> R(ArbTotalStake),
         guaranteed_profit |-> RMul(arb.profit_margin, R(ArbTotalStake)),
         strategy |-> "arbitrage"]

\* the test on the two best quotes and the opportunity it yields: a scan result is
\* [raised, opportunities]
Scanned(raised, opportunities) == [raised |-> raised, opportunities |-> opportunities]

PairScan(min_margin, bet_type, sel1, sel2, q1, q2) ==
    IF AmericanRaises(q1.odds) \/ AmericanRaises(q2.odds)
    THEN Scanned(TRUE, <<>>)
    ELSE LET arb == _calculate_arbitrage(q1.odds, q2.odds)
         IN  IF arb.is_arbitrage /\ RLe(min_margin, arb.profit_margin)
             THEN Scanned(FALSE, <<Opportunity(bet_type, sel1, sel2, q1, q2, arb)>>)
             ELSE Scanned(FALSE, <<>>)

\* if best_home['odds'] and best_away['odds']: None and 0 are both false
QuoteTruthy(best) == best # None /\ best[1].odds # 0

ArbCheckMoneyline(min_margin, game, bookmakers) ==
    LET entries == Entries(bookmakers, "h2h")
        best_home == BestQuote(entries, game.home_team, None)
        best_away == BestQuote(SelectSeq(entries, LAMBDA en : en.name # game.home_team),
                               game.away_team, None)
    IN  IF QuoteTruthy(best_home) /\ QuoteTruthy(best_away)
        THEN PairScan(min_margin, "moneyline", <<game.home_team>>, <<game.away_team>>,
                      best_home[1], best_away[1])
        ELSE Scanned(FALSE, <<>>)

\* the keys of spreads_by_point / totals_by_point, in insertion order
RECURSIVE Points(_, _)
Points(entries, seen) ==
    IF entries = <<>> THEN seen
    ELSE Points(Tail(entries),
                IF \E i \in 1..Len(seen) : seen[i] = Head(entries).point
                THEN seen
                ELSE Append(seen, Head(entries).point))

AtPoint(entries, point) == SelectSeq(entries, LAMBDA en : en.point = point)

\* name.lower()
Lower(name) ==
    CASE name = "Over" -> "over"
      [] name = "Under" -> "under"
      [] OTHER -> name

Lowered(entries) == [i \in 1..Len(entries) |-> [entries[i] EXCEPT !.name = Lower(@)]]

\* for point, data in ..._by_point.items(): the pair test of each point that has both
\* sides; an exception ends the loop
RECURSIVE ScanPoints(_, _, _, _, _, _, _)
ScanPoints(min_margin, bet_type, name1, name2, entries, points, found) ==
    IF points = <<>> THEN Scanned(FALSE, found)
    ELSE LET point == Head(points)
             group == AtPoint(entries, point)
             best1 == BestQuote(group, name1, None)
             best2 == BestQuote(SelectSeq(group, LAMBDA en : en.name # name1), name2, None)
             scan == IF best1 # None /\ best2 # None
                     THEN PairScan(min_margin, bet_type, <<name1, point>>,
                                   <<name2, IF bet_type = "spread" THEN RNeg(point) ELSE point>>,
                                   best1[1], best2[1])
                     ELSE Scanned(FALSE, <<>>)
         IN  IF scan.raised
             THEN Scanned(TRUE, found)
             ELSE ScanPoints(min_margin, bet_type, name1, name2, entries, Tail(points),
                             found \o scan.opportunities)

ArbCheckSpread(min_margin, game, bookmakers) ==
    LET entries == Entries(bookmakers, "spreads")
    IN  ScanPoints(min_margin, "spread", game.home_team, game.away_team, entries,
                   Points(entries, <<>>), <<>>)

ArbCheckTotals(min_margin, game, bookmakers) ==
    LET entries == Lowered(Entries(bookmakers, "totals"))
    IN  ScanPoints(min_margin, "total", "over", "under", entries, Points(entries, <<>>), <<>>)

\* find_arbitrage: moneyline, then spread, then totals; the lists are concatenated, an
\* exception of any scan leaves the call
find_arbitrage(min_margin, game, bookmakers) ==
    LET ml == ArbCheckMoneyline(min_margin, game, bookmakers)
        sp == ArbCheckSpread(min_margin, game, bookmakers)
        tot == ArbCheckTotals(min_margin, game, bookmakers)
    IN  IF ml.raised \/ sp.raised \/ tot.raised
        THEN [kind |-> "raise"]
        ELSE [kind |-> "list",
              value |-> ml.opportunities \o sp.opportunities \o tot.opportunities]

\* Inputs of the model
ArbGame == [home_team |-> "Lakers", away_team |-> "Celtics"]
ArbOdds == {120, 150, -110, 100, 101, -300, 400, 0}
PricePairs == {<<150, 150>>, <<0, -110>>, <<-110, 150>>}
TotalPoint == <<441, 2>>                     \* 220.5
Outcome(name, price, point) == [name |-> name, price |-> price, point |-> point]

H2hQuotes ==
    {<<>>} \cup {<<Outcome("Lakers", pp[1], None), Outcome("Celtics", pp[2], None)>> :
                    pp \in PricePairs}
SpreadQuotes ==
    {<<>>,
     <<Outcome("Lakers", 150, R(0)), Outcome("Celtics", 150, R(0))>>,
     <<Outcome("Lakers", 0, R(0)), Outcome("Celtics", -110, R(0))>>,
     <<Outcome("Lakers", 150, R(-3)), Outcome("Celtics", 150, R(3))>>}
TotalQuotes ==
    {<<>>} \cup {<<Outcome("Over", pp[1], TotalPoint), Outcome("Under", pp[2], TotalPoint)>> :
                    pp \in PricePairs}

Bookmaker(name, h2h, spreads, totals) ==
    [name |-> name, h2h |-> h2h, spreads |-> spreads, totals |-> totals]

BookmakersOf(name) ==
    {Bookmaker(name, h, sp, t) : h \in H2hQuotes, sp \in SpreadQuotes, t \in TotalQuotes}

\* a second bookmaker quotes nothing, or the same pair of prices on every market, or
\* only a spread with the away team as the favourite
SecondBookmakers(name) ==
    {Bookmaker(name, <<>>, <<>>, <<>>),
     Bookmaker(name, <<>>,
               <<Outcome("Lakers", 150, R(3)), Outcome("Celtics", 150, R(-3))>>, <<>>)}
    \cup {Bookmaker(name,
                    <<Outcome("Lakers", pp[1], None), Outcome("Celtics", pp[2], None)>>,
                    <<Outcome("Lakers", pp[1], R(0)), Outcome("Celtics", pp[2], R(0))>>,
                    <<Outcome("Over", pp[1], TotalPoint), Outcome("Under", pp[2], TotalPoint)>>) :
              pp \in {<<150, 150>>, <<-110, 150>>}}

BookmakerLists ==
    {<<b>> : b \in BookmakersOf("fanduel")}
    \cup {<<b1, b2>> : b1 \in BookmakersOf("fanduel"), b2 \in SecondBookmakers("draftkings")}

CalculateArbitrage ==
    /\ \E odds1 \in ArbOdds, odds2 \in ArbOdds :
          st_last' = StrategyCall("ArbitrageStrategy._calculate_arbitrage",
                         [odds1 |-> odds1, odds2 |-> odds2],
                         IF AmericanRaises(odds1) \/ AmericanRaises(odds2)
                         THEN [kind |-> "raise"]
                         ELSE [kind |-> "dict", value |-> _calculate_arbitrage(odds1, odds2)])
    /\ UNCHANGED <<clv_records, ledger_vars, thread_vars, risk_vars, engine_vars>>

CalculateBetSizes ==
    /\ \E odds1 \in ArbOdds, odds2 \in ArbOdds :
          st_last' = StrategyCall("ArbitrageStrategy._calculate_bet_sizes",
                         [odds1 |-> odds1, odds2 |-> odds2, total_stake |-> R(ArbTotalStake)],
                         IF AmericanRaises(odds1) \/ AmericanRaises(odds2)
                         THEN [kind |-> "raise"]
                         ELSE [kind |-> "dict",
                               value |-> _calculate_bet_sizes(odds1, odds2, R(ArbTotalStake)),
                               exact |-> BetSizeExact(odds1, odds2, R(ArbTotalStake))])
    /\ UNCHANGED <<clv_records, ledger_vars, thread_vars, risk_vars, engine_vars>>

FindArbitrage ==
    /\ \E bookmakers \in BookmakerLists :
          st_last' = StrategyCall("ArbitrageStrategy.find_arbitrage",
                         [bookmakers |-> bookmakers],
                         find_arbitrage(DefaultMinProfitMargin, ArbGame, bookmakers))
    /\ UNCHANGED <<clv_records, ledger_vars, thread_vars, risk_vars, engine_vars>>

\* Inputs of the best-quote selection: up to three bookmakers, each quoting the home
\* price of its place in the list and the away price of the mirrored place
QuotePrices == {-300, -110, -100, 100, 150, 400}
PriceLists == UNION {[1..n -> QuotePrices] : n \in 1..3}
BookNames == <<"fanduel", "draftkings", "betmgm">>
Mirror(prices, i) == prices[Len(prices) + 1 - i]

H2hBookmakers(prices) ==
    [i \in 1..Len(prices) |->
        Bookmaker(BookNames[i],
                  <<Outcome(ArbGame.home_team, prices[i], None),
                    Outcome(ArbGame.away_team, Mirror(prices, i), None)>>,
                  <<>>, <<>>)]

\* the first loop of _check_moneyline_arbitrage: best_home and best_away
ArbBestMoneyline ==
    /\ \E prices \in PriceLists :
          LET entries == Entries(H2hBookmakers(prices), "h2h")
          IN  st_last' = StrategyCall("ArbitrageStrategy._check_moneyline_arbitrage",
                             [prices |-> prices],
                             [best_home |-> BestQuote(entries, ArbGame.home_team, None),
                              best_away |->
                                  BestQuote(SelectSeq(entries,
                                                LAMBDA en : en.name # ArbGame.home_team),
                                            ArbGame.away_team, None)])
    /\ UNCHANGED <<clv_records, ledger_vars, thread_vars, risk_vars, engine_vars>>

----------------------------------------------------------------------------
(* SportsArbitrageStrategy: strategies/sports_arbitrage.py *)

DefaultMinProfitPercent == <<1, 2>>         \* min_profit_percent = 0.5
ArbBankrollShare == <<1, 10>>               \* total_stake = bankroll * 0.10

\* _calculate_arbitrage: None when the implied probabilities sum to 1 or more
sports_calculate_arbitrage(odds_a, odds_b) ==
    LET implied_prob_a == RDiv(R(1), DecimalOdds(odds_a))
        implied_prob_b == RDiv(R(1), DecimalOdds(odds_b))
        total_prob == RAdd(implied_prob_a, implied_prob_b)
    IN  IF RLt(total_prob, R(1))
        THEN Some([profit_percent |-> RMul(RSub(RDiv(R(1), total_prob), R(1)), R(100)),
                   stake_ratio |-> RDiv(implied_prob_a, implied_prob_b),
                   total_prob |-> total_prob])
        ELSE None

\* {'book': book, 'odds': ..., 'line': odds['spread'][side]}; a moneyline has no line
SportsQuote(o, market, k, price) ==
    CASE market = "spread_odds" -> [book |-> o.book, odds |-> price, line |-> o.spread[k]]
      [] market = "total_odds" -> [book |-> o.book, odds |-> price, line |-> o.total[k]]
      [] OTHER -> [book |-> o.book, odds |-> price]

\* the running best quote of side k (1: home/over, 2: away/under) of one market; a
\* price of None or 0 is passed over
RECURSIVE SportsBest(_, _, _, _)
SportsBest(all_odds, market, k, best) ==
    IF all_odds = <<>> THEN best
    ELSE LET o == Head(all_odds)
             price == IF o[market] = <<>> THEN 0 ELSE o[market][k]
         IN  SportsBest(Tail(all_odds), market, k,
                        IF price # 0 /\ (best = None \/ HigherOdds(price, best[1].odds))
                        THEN Some(SportsQuote(o, market, k, price))
                        ELSE best)

SportsOpportunity(type, side_a, side_b, arb) ==
    [game |-> "game_1", type |-> type, side_a |-> side_a, side_b |-> side_b,
     profit_percent |-> arb.profit_percent, stake_ratio |-> arb.stake_ratio]

\* _check_spread_arbitrage, _check_total_arbitrage, _check_moneyline_arbitrage: one
\* opportunity or None
SportsCheck(min_percent, type, market, all_odds) ==
    LET best_a == SportsBest(all_odds, market, 1, None)
        best_b == SportsBest(all_odds, market, 2, None)
    IN  IF best_a = None \/ best_b = None THEN None
        ELSE LET arb == sports_calculate_arbitrage(best_a[1].odds, best_b[1].odds)
             IN  IF arb # None /\ RLe(min_percent, arb[1].profit_percent)
                 THEN Some(SportsOpportunity(type, best_a[1], best_b[1], arb[1]))
                 ELSE None

\* find_arbitrage_opportunities for one game: nothing with fewer than two books, then
\* spread, total, moneyline
find_arbitrage_opportunities(min_percent, all_odds) ==
    IF Len(all_odds) < 2 THEN <<>>
    ELSE SportsCheck(min_percent, "spread", "spread_odds", all_odds)
         \o SportsCheck(min_percent, "total", "total_odds", all_odds)
         \o SportsCheck(min_percent, "moneyline", "moneyline", all_odds)

\* (variant: the stake of each side in proportion to its own implied probability)
OptimalStakesProportional(opportunity, available) ==
    LET total_stake == RMul(available, ArbBankrollShare)
        stake_b == RDiv(total_stake, RAdd(R(1), opportunity.stake_ratio))
    IN  [stake_a |-> RSub(total_stake, stake_b), stake_b |-> stake_b,
         total_stake |-> total_stake]

\* stake_a = total_stake / (1 + stake_ratio); stake_b = total_stake - stake_a
OptimalStakesExact(opportunity, available) ==
    LET total_stake == RMul(available, ArbBankrollShare)
        stake_a == RDiv(total_stake, RAdd(R(1), opportunity.stake_ratio))
    IN  [stake_a |-> stake_a, stake_b |-> RSub(total_stake, stake_a),
         total_stake |-> total_stake]

calculate_optimal_stakes(opportunity, available) ==
    LET x == OptimalStakesExact(opportunity, available)
    IN  [stake_a |-> Round2(x.stake_a), stake_b |-> Round2(x.stake_b),
         total_stake |-> Round2(x.total_stake),
         expected_profit |-> Round2(RMul(x.total_stake,
                                         RDiv(opportunity.profit_percent, R(100))))]

\* (variant: no comparison of the two books)
ValidateWithoutBookCheck(min_percent, arb) ==
    IF RLt(arb.profit_percent, min_percent)
    THEN [valid |-> FALSE, reason |-> "Profit too low"]
    ELSE [valid |-> TRUE, reason |-> "Valid arbitrage opportunity"]

validate_opportunity(min_percent, arb) ==
    IF RLt(arb.profit_percent, min_percent)
    THEN [valid |-> FALSE, reason |-> "Profit too low"]
    ELSE IF arb.side_a.book = arb.side_b.book
    THEN [valid |-> FALSE, reason |-> "Cannot arbitrage same sportsbook"]
    ELSE [valid |-> TRUE, reason |-> "Valid arbitrage opportunity"]

\* Inputs of the model
SportsQuotes == {<<>>} \cup PricePairs
SportsBooks == {"fanduel", "draftkings"}
SportsBankrolls == {1000}

\* the lines of a book: 'spread': {'home': s, 'away': -s} and
\* 'total': {'over': t, 'under': t}; every book draws its own s and t
BookLines(s, t) == [spread |-> <<s, RNeg(s)>>, total |-> <<t, t>>]
FirstLines == BookLines(R(-3), TotalPoint)
SecondLines == {FirstLines, BookLines(<<-7, 2>>, <<445, 2>>)}

BookOdds(book, moneyline, spread_odds, total_odds, lines) ==
    [book |-> book, moneyline |-> moneyline, spread_odds |-> spread_odds,
     total_odds |-> total_odds, spread |-> lines.spread, total |-> lines.total]

BookOddsOf(book) ==
    {BookOdds(book, m, sp, t, FirstLines) :
        m \in SportsQuotes, sp \in SportsQuotes, t \in SportsQuotes}

\* a second book quotes nothing, or the same pair of prices on every market, at the
\* lines of the first book or at its own
SecondBookOdds(book) ==
    {BookOdds(book, <<>>, <<>>, <<>>, FirstLines)}
    \cup {BookOdds(book, pp, pp, pp, lines) :
              pp \in {<<150, 150>>, <<-110, 150>>}, lines \in SecondLines}

AllOddsLists ==
    {<<b>> : b \in BookOddsOf("fanduel")}
    \cup {<<b1, b2>> : b1 \in BookOddsOf("fanduel"), b2 \in SecondBookOdds("draftkings")}

\* the opportunities a scan can produce from two quotes that form an arbitrage
FoundOpportunities ==
    {SportsOpportunity("moneyline", [book |-> ba, odds |-> oa], [book |-> bb, odds |-> ob],
                       sports_calculate_arbitrage(oa, ob)[1]) :
        <<ba, bb, oa, ob>> \in
            {q \in SportsBooks \X SportsBooks \X (ArbOdds \ {0}) \X (ArbOdds \ {0}) :
                sports_calculate_arbitrage(q[3], q[4]) # None}}

SportsFindArbitrageOpportunities ==
    /\ \E all_odds \in AllOddsLists :
          st_last' = StrategyCall("SportsArbitrageStrategy.find_arbitrage_opportunities",
                         [all_odds |-> all_odds],
                         [kind |-> "list",
                          value |-> find_arbitrage_opportunities(DefaultMinProfitPercent,
                                                                 all_odds)])
    /\ UNCHANGED <<clv_records, ledger_vars, thread_vars, risk_vars, engine_vars>>

CalculateOptimalStakes ==
    /\ \E opportunity \in FoundOpportunities, bk \in SportsBankrolls :
          st_last' = StrategyCall("SportsArbitrageStrategy.calculate_optimal_stakes",
                         [opportunity |-> opportunity, bankroll |-> R(bk)],
                         [kind |-> "dict",
                          value |-> calculate_optimal_stakes(opportunity, R(bk)),
                          exact |-> OptimalStakesExact(opportunity, R(bk))])
    /\ UNCHANGED <<clv_records, ledger_vars, thread_vars, risk_vars, engine_vars>>

ValidateOpportunity ==
    /\ \E arb \in FoundOpportunities :
          st_last' = StrategyCall("SportsArbitrageStrategy.validate_opportunity",
                         [arb |-> arb],
                         [kind |-> "tuple",
                          value |-> validate_opportunity(DefaultMinProfitPercent, arb)])
    /\ UNCHANGED <<clv_records, ledger_vars, thread_vars, risk_vars, engine_vars>>

MoneylineBooks(prices) ==
    [i \in 1..Len(prices) |->
        BookOdds(BookNames[i], <<prices[i], Mirror(prices, i)>>, <<>>, <<>>, FirstLines)]

\* the loop of _check_moneyline_arbitrage: best_home and best_away
SportsBestMoneyline ==
    /\ \E prices \in PriceLists :
          LET all_odds == MoneylineBooks(prices)
          IN  st_last' = StrategyCall("SportsArbitrageStrategy._check_moneyline_arbitrage",
                             [prices |-> prices],
                             [best_home |-> SportsBest(all_odds, "moneyline", 1, None),
                              best_away |-> SportsBest(all_odds, "moneyline", 2, None)])
    /\ UNCHANGED <<clv_records, ledger_vars, thread_vars, risk_vars, engine_vars>>

----------------------------------------------------------------------------
(* CLVTracker: the statistics over clv_records *)

MaxHistory == 101       \* track_bet_clv calls of a long history

\* Inputs of the model: home bets taken at -5.5, closing at -8, -7.5, -5.5, -3.5 or -3,
\* that is a CLV of -2.5, -2, 0, 2 or 2.5 points
StatBetLine == <<-11, 2>>
StatLines == {<<-8, 1>>, <<-15, 2>>, <<-11, 2>>, <<-7, 2>>, <<-3, 1>>}
StatStrategies == {"clv_model", "sharp_tracker"}
StatBet(strategy) == [id |-> "b", sport |-> "nba", strategy |-> strategy, side |-> "home",
                      bet_line |-> StatBetLine]

\* if strategy: records = [r for r in records if r.get('strategy') == strategy], and
\* the same for sport
Matching(records, strategy, sport) ==
    SelectSeq(records, LAMBDA r : /\ (strategy = None \/ r.strategy = strategy)
                                  /\ (sport = None \/ r.sport = sport))

\* sum(r['clv'] for r in records[lo..hi]); the values are exact, so the order of the
\* additions does not matter and the range is halved to keep the evaluation shallow
RECURSIVE SumRange(_, _, _)
SumRange(records, lo, hi) ==
    IF lo > hi THEN Zero
    ELSE IF lo = hi THEN records[lo].clv
    ELSE LET mid == (lo + hi) \div 2
         IN  RAdd(SumRange(records, lo, mid), SumRange(records, mid + 1, hi))

SumClv(records) == SumRange(records, 1, Len(records))

\* calculate_average_clv: round(sum / len, 2) over every matching record, 0.0 if none
calculate_average_clv(records, strategy, sport) ==
    LET matching == Matching(records, strategy, sport)
    IN  IF matching = <<>> THEN Zero
        ELSE Round2(RDiv(SumClv(matching), R(Len(matching))))

\* get_clv_by_strategy, get_clv_by_sport: the average of each strategy / sport on record
get_clv_by_strategy(records) ==
    [strategy \in {records[i].strategy[1] :
                      i \in {j \in 1..Len(records) : records[j].strategy # None}}
        |-> calculate_average_clv(records, Some(strategy), None)]

get_clv_by_sport(records) ==
    [sport \in {records[i].sport[1] :
                   i \in {j \in 1..Len(records) : records[j].sport # None}}
        |-> calculate_average_clv(records, None, Some(sport))]

\* the if/elif chain of get_clv_distribution on one clv
Bucket(clv) ==
    IF RLt(R(2), clv) THEN "highly_positive"
    ELSE IF RLt(Zero, clv) THEN "positive"
    ELSE IF RLe(R(-2), clv) THEN "negative"
    ELSE "highly_negative"

BucketNames == {"highly_positive", "positive", "negative", "highly_negative"}

get_clv_distribution(records) ==
    IF records = <<>> THEN [buckets |-> <<>>]
    ELSE [buckets |-> [b \in BucketNames |->
                          Cardinality({i \in 1..Len(records) : Bucket(records[i].clv) = b})],
          total |-> Len(records)]

\* track_bet_clv on a short list of records, every input free
TrackStat ==
    /\ Len(clv_records) < MaxClvRecords
    /\ \E closing_line \in StatLines, strategy \in StatStrategies :
          /\ clv_records' = track_bet_clv(clv_records, StatBet(strategy), closing_line)
          /\ st_last' = StrategyCall("CLVTracker.track_bet_clv",
                            [side |-> "home", bet_line |-> StatBetLine,
                             closing_line |-> closing_line],
                            None)
    /\ UNCHANGED <<ledger_vars, thread_vars, risk_vars, engine_vars>>

GetClvDistribution ==
    /\ st_last' = StrategyCall("CLVTracker.get_clv_distribution", None,
                       get_clv_distribution(clv_records))
    /\ UNCHANGED <<clv_records, ledger_vars, thread_vars, risk_vars, engine_vars>>

\* track_bet_clv on a long history: the first record is free among two closing lines,
\* every later bet is a clv_model bet that closes at the line it was taken at
HistoryLines == {<<-3, 1>>, StatBetLine}

TrackHistory ==
    /\ Len(clv_records) < MaxHistory
    /\ \E closing_line \in IF clv_records = <<>> THEN HistoryLines ELSE {StatBetLine},
          strategy \in IF clv_records = <<>> THEN StatStrategies ELSE {"clv_model"} :
          /\ clv_records' = track_bet_clv(clv_records, StatBet(strategy), closing_line)
          /\ st_last' = StrategyCall("CLVTracker.track_bet_clv",
                            [side |-> "home", bet_line |-> StatBetLine,
                             closing_line |-> closing_line],
                            None)
    /\ UNCHANGED <<ledger_vars, thread_vars, risk_vars, engine_vars>>

CalculateAverageClv ==
    /\ \E strategy \in {None, Some("clv_model")}, sport \in {None, Some("nba")} :
          st_last' = StrategyCall("CLVTracker.calculate_average_clv",
                         [strategy |-> strategy, sport |-> sport],
                         Some(calculate_average_clv(clv_records, strategy, sport)))
    /\ UNCHANGED <<clv_records, ledger_vars, thread_vars, risk_vars, engine_vars>>

GetClvByStrategy ==
    /\ st_last' = StrategyCall("CLVTracker.get_clv_by_strategy", None,
                       get_clv_by_strategy(clv_records))
    /\ UNCHANGED <<clv_records, ledger_vars, thread_vars, risk_vars, engine_vars>>

GetClvBySport ==
    /\ st_last' = StrategyCall("CLVTracker.get_clv_by_sport", None,
                       get_clv_by_sport(clv_records))
    /\ UNCHANGED <<clv_records, ledger_vars, thread_vars, risk_vars, engine_vars>>

----------------------------------------------------------------------------
(* SportsBettingBot: _place_bet and _settle_pending_bets *)

\* self.running = False; self.day_count = 0; "at" is the position in run()
BotCreated == [running |-> FALSE, day_count |-> 0, at |-> "created", games |-> 0,
               halt_seen |-> FALSE]

BotSides == {"home", "away"}                \* bet_info.get('side', 'home')
BotOdds == -110                              \* odds=-110 in _place_bet
StakeShare == <<1, 50>>                      \* stake = bankroll * 0.02
ClosingOffsets == {-5, 5}                    \* random.uniform(-5, 5)
SettledPerDay == 3                           \* pending[:min(3, len(pending))]

\* (variant: the answer of check_bet_allowed is not looked at)
BetAllowedAlways(ret) == ret.kind = "tuple"

\* if not allowed: return
BetAllowed(ret) == ret.kind = "tuple" /\ ret.allowed

\* _place_bet: the stake is 2% of the engine's bankroll; check_bet_allowed is asked
\* with today's P&L 0 and may raise the peak; an approved bet goes to the engine
_place_bet(side, mv) ==
    LET bk == engine.current_bankroll
        stake == RMul(bk, StakeShare)
        ret == check_bet_allowed(rm, bk, stake, Len(engine.bets), Zero)
        r == engine_place_bet(engine, side, BotOdds, stake, mv)
        placed == BetAllowed(ret)
    IN  /\ rm' = [rm EXCEPT !.peak_bankroll = PeakAfter(rm, bk, ret)]
        /\ rm_last' = RiskCall("check_bet_allowed",
                          [NoArgs EXCEPT !.current_bankroll = bk,
                                         !.proposed_stake = stake,
                                         !.pending_bet_count = Len(engine.bets)],
                          ret)
        /\ (placed /\ r.ret # None) => EnginePlaced(engine) < MaxBets
        /\ engine' = IF placed THEN r.engine ELSE engine
        /\ engine_last' =
              EngineCall("_place_bet", IF placed THEN r.ret ELSE None,
                         IF ret.kind = "raise" THEN "ZeroDivisionError"
                         ELSE IF ~placed THEN "Bet blocked"
                         ELSE IF r.ret = None THEN "rejected"
                         ELSE "Bet placed")

BotPlaceBet ==
    /\ \E side \in BotSides, mv \in OddsMovements : _place_bet(side, mv)
    /\ UNCHANGED <<ledger_vars, thread_vars, st_last, clv_records, bot>>

\* the body of the loop of _settle_pending_bets for the k-th bet of the copied list,
\* then the rest of the loop; an exception of settle_bet ends the loop
RECURSIVE SettleFrom(_, _, _, _, _)
SettleFrom(e, records, pending, draws, k) ==
    IF k > Len(draws)
    THEN [engine |-> e, clv_records |-> records, log |-> "Settled"]
    ELSE LET bet == pending[k]
             closing_line == bet.odds + draws[k].offset
             r == engine_settle_bet(e, bet.id, draws[k].won, Some(closing_line))
         IN  IF r.log = "ZeroDivisionError"
             THEN [engine |-> e, clv_records |-> records, log |-> r.log]
             ELSE SettleFrom(r.engine,
                             track_bet_clv(records, bet, R(closing_line)),
                             pending, draws, k + 1)

Min(a, b) == IF a < b THEN a ELSE b

\* _settle_pending_bets: up to three of the pending bets, in list order, each with a
\* drawn outcome and a drawn closing line
_settle_pending_bets ==
    LET pending == engine.bets
        n == Min(SettledPerDay, Len(pending))
    IN  \E draws \in [1..n -> [won : BOOLEAN, offset : ClosingOffsets]] :
           LET r == SettleFrom(engine, clv_records, pending, draws, 1)
           IN  /\ engine' = r.engine
               /\ clv_records' = r.clv_records
               /\ engine_last' = EngineCall("_settle_pending_bets", None, r.log)

BotSettlePendingBets ==
    /\ _settle_pending_bets
    /\ UNCHANGED <<ledger_vars, thread_vars, risk_vars, st_last, bot>>

----------------------------------------------------------------------------
(* SportsBettingBot.run: the loop over the days *)

DurationDays == 2       \* run(duration_days): days per run
MaxGamesPerDay == 2     \* games of one day for which find_value_bets returns a bet

\* risk_management section of the configuration: the defaults of __init__ and two
\* tighter settings
RunConfigs ==
    {[max_daily_loss_percent |-> DefaultDailyLoss,
      max_total_drawdown_percent |-> DefaultDrawdown,
      max_concurrent_bets |-> DefaultConcurrent],
     [max_daily_loss_percent |-> <<1, 50>>,
      max_total_drawdown_percent |-> DefaultDrawdown,
      max_concurrent_bets |-> 1],
     [max_daily_loss_percent |-> DefaultDailyLoss,
      max_total_drawdown_percent |-> <<1, 50>>,
      max_concurrent_bets |-> DefaultConcurrent]}

\* self.running = True, before the loop
RunStart ==
    /\ bot.at = "created"
    /\ bot' = [bot EXCEPT !.running = TRUE, !.at = "loop"]
    /\ UNCHANGED <<ledger_vars, thread_vars, risk_vars, strategy_vars, engine, engine_last>>

\* while self.running and self.day_count < duration_days: self.day_count += 1, then
\* the daily cycle starts with the games of the day
RunStartDay ==
    /\ bot.at = "loop" /\ bot.running /\ bot.day_count < DurationDays
    /\ \E n \in 0..MaxGamesPerDay :
          bot' = [bot EXCEPT !.day_count = @ + 1, !.at = "cycle", !.games = n]
    /\ UNCHANGED <<ledger_vars, thread_vars, risk_vars, strategy_vars, engine, engine_last>>

\* _try_clv_model for one game with a value bet: _place_bet
RunTryClvModel ==
    /\ bot.at = "cycle" /\ bot.games > 0
    /\ \E side \in BotSides, mv \in OddsMovements : _place_bet(side, mv)
    /\ bot' = [bot EXCEPT !.games = @ - 1]
    /\ UNCHANGED <<ledger_vars, thread_vars, strategy_vars>>

\* the end of _run_daily_cycle: _settle_pending_bets
RunSettlePendingBets ==
    /\ bot.at = "cycle" /\ bot.games = 0
    /\ _settle_pending_bets
    /\ bot' = [bot EXCEPT !.at = "check"]
    /\ UNCHANGED <<ledger_vars, thread_vars, risk_vars, st_last>>

\* if self.risk_manager.should_halt_trading(self.paper_trading.get_bankroll()): break
RunHaltCheck ==
    /\ bot.at = "check"
    /\ LET halt == should_halt_trading(rm, engine.current_bankroll)
       IN  /\ rm_last' = RiskCall("should_halt_trading",
                             [NoArgs EXCEPT !.current_bankroll = engine.current_bankroll],
                             [kind |-> "bool", value |-> halt])
           /\ bot' = IF halt
                     THEN [bot EXCEPT !.at = "done", !.running = FALSE, !.halt_seen = TRUE]
                     ELSE [bot EXCEPT !.at = "loop"]
    /\ UNCHANGED <<rm, ledger_vars, thread_vars, strategy_vars, engine, engine_last>>

\* the loop condition fails: the test is complete; finally: self.running = False
RunComplete ==
    /\ bot.at = "loop" /\ ~(bot.running /\ bot.day_count < DurationDays)
    /\ bot' = [bot EXCEPT !.at = "done", !.running = FALSE]
    /\ UNCHANGED <<ledger_vars, thread_vars, risk_vars, strategy_vars, engine, engine_last>>

----------------------------------------------------------------------------
(* Specifications *)

\* PaperTrader(starting_bankroll, data_dir) on an empty data_dir
LedgerInitFrom(Startings) ==
    /\ \E sb \in Startings : starting_bankroll = R(sb) /\ bankroll = R(sb)
    /\ bets = <<>>
    /\ bet_counter = 0
    /\ state_file = NoFile
    /\ save_failures = 0
    /\ from_snapshot = FALSE
    /\ last = CallInit

ThreadsInit ==
    /\ pc = [t \in Threads |-> "idle"]
    /\ tl = [t \in Threads |-> IdleLocals]

\* RiskManager(starting_bankroll, kelly_fraction=...)
RiskInitFrom(Startings, Kellys) ==
    /\ \E sb \in Startings, k \in Kellys : rm = RiskManagerInit(sb, k)
    /\ rm_last = [op |-> "init", args |-> NoArgs, ret |-> [kind |-> "None"], before |-> rm]

\* PaperTradingEngine(starting_bankroll, realistic_mode)
EngineInitFrom(Startings, Modes) ==
    /\ \E sb \in Startings, realistic \in Modes : engine = EngineInit(sb, realistic)
    /\ engine_last = EngineCall("init", None, "Paper Trading Engine initialized")
    /\ bot = BotCreated

\* CLVTracker() and the strategy objects before any call
StrategyInit ==
    /\ clv_records = <<>>
    /\ st_last = StrategyCall("init", None, None)

OthersInit == EngineInitFrom({500}, {TRUE}) /\ StrategyInit

Init ==
    LedgerInitFrom(StartingBankrolls) /\ ThreadsInit /\ RiskInitFrom({10000}, {DefaultKelly})
    /\ OthersInit

RiskInit ==
    LedgerInitFrom(StartingBankrolls) /\ ThreadsInit
    /\ RiskInitFrom(RiskStartingBankrolls, KellyFractions)
    /\ OthersInit

ThreadsStartingBankrolls == {100, 200}

ConcurrentInit ==
    LedgerInitFrom(ThreadsStartingBankrolls) /\ ThreadsInit
    /\ RiskInitFrom({10000}, {DefaultKelly})
    /\ OthersInit

\* The ledger under sequential calls, on a data_dir whose writes succeed
Next == PlaceBet \/ SettleBet

Spec == Init /\ [][Next]_vars

\* The ledger under sequential calls when a write of the snapshot may fail and the
\* PaperTrader may be constructed again on the same data_dir
PersistNext == PlaceBetUnreliable \/ SettleBetUnreliable \/ Restart

SpecPersist == Init /\ [][PersistNext]_vars

\* The ledger under sequential calls whose bet dictionaries carry additional keys
ExtraKeysNext == PlaceBetExtraKeys \/ SettleBet

SpecExtraKeys == Init /\ [][ExtraKeysNext]_vars

\* The risk manager under sequential calls
RiskNext == CheckBetAllowed \/ ShouldHaltTrading \/ CalculatePositionSize

SpecRisk == RiskInit /\ [][RiskNext]_vars

\* The ledger under two concurrent place_bet calls, one per thread
ConcurrentNext ==
    \E t \in Threads :
        \/ ThreadCall(t)
        \/ ThreadValidate(t)
        \/ ThreadCounterRead(t)
        \/ ThreadCounterWrite(t)
        \/ ThreadFormatId(t)
        \/ ThreadBankrollRead(t)
        \/ ThreadBankrollWrite(t)
        \/ ThreadAppend(t)
        \/ ThreadSave(t)
        \/ ThreadReturn(t)

SpecConcurrent == ConcurrentInit /\ [][ConcurrentNext]_vars

\* The engine under sequential calls
EngineSpecInit ==
    LedgerInitFrom(StartingBankrolls) /\ ThreadsInit /\ RiskInitFrom({10000}, {DefaultKelly})
    /\ EngineInitFrom(EngineStartingBankrolls, BOOLEAN) /\ StrategyInit

EngineNext == EnginePlaceBet \/ EngineSettleBet

SpecEngine == EngineSpecInit /\ [][EngineNext]_vars

\* The bot: SportsBettingBot.__init__ gives the engine and the risk manager the same
\* starting bankroll; then placements and daily settlements in any order
BotStartingBankrolls == {500, 10000}

BotInit ==
    /\ LedgerInitFrom(StartingBankrolls) /\ ThreadsInit /\ StrategyInit
    /\ \E sb \in BotStartingBankrolls, realistic \in BOOLEAN :
          /\ engine = EngineInit(sb, realistic)
          /\ rm = RiskManagerInit(sb, DefaultKelly)
    /\ engine_last = EngineCall("init", None, "SPORTS BETTING BOT STARTING")
    /\ bot = BotCreated
    /\ rm_last = [op |-> "init", args |-> NoArgs, ret |-> [kind |-> "None"], before |-> rm]

BotNext == BotPlaceBet \/ BotSettlePendingBets

SpecBot == BotInit /\ [][BotNext]_vars

\* One call of run() on a bot built from a configuration
RunInit ==
    /\ LedgerInitFrom(StartingBankrolls) /\ ThreadsInit /\ StrategyInit
    /\ \E sb \in EngineStartingBankrolls, realistic \in BOOLEAN, cfg \in RunConfigs :
          /\ engine = EngineInit(sb, realistic)
          /\ rm = [RiskManagerInit(sb, DefaultKelly) EXCEPT
                      !.max_daily_loss_percent = cfg.max_daily_loss_percent,
                      !.max_total_drawdown_percent = cfg.max_total_drawdown_percent,
                      !.max_concurrent_bets = cfg.max_concurrent_bets]
    /\ engine_last = EngineCall("init", None, "SPORTS BETTING BOT STARTING")
    /\ bot = BotCreated
    /\ rm_last = [op |-> "init", args |-> NoArgs, ret |-> [kind |-> "None"], before |-> rm]

RunNext ==
    \/ RunStart
    \/ RunStartDay
    \/ RunTryClvModel
    \/ RunSettlePendingBets
    \/ RunHaltCheck
    \/ RunComplete

SpecRun == RunInit /\ [][RunNext]_vars

\* ArbitrageStrategy under sequential calls
ArbNext == CalculateArbitrage \/ CalculateBetSizes \/ FindArbitrage

SpecArb == Init /\ [][ArbNext]_vars

\* SportsArbitrageStrategy under sequential calls
SportsArbNext ==
    SportsFindArbitrageOpportunities \/ CalculateOptimalStakes \/ ValidateOpportunity

SpecSportsArb == Init /\ [][SportsArbNext]_vars

\* The histogram of CLVTracker over short lists of records
ClvStatsNext == TrackStat \/ GetClvDistribution

SpecClvStats == Init /\ [][ClvStatsNext]_vars

\* The averages of CLVTracker over a long history
ClvHistoryNext == TrackHistory \/ CalculateAverageClv \/ GetClvByStrategy \/ GetClvBySport

SpecClvHistory == Init /\ [][ClvHistoryNext]_vars

\* The selection of the best quote of each side, in both detectors
BestNext == ArbBestMoneyline \/ SportsBestMoneyline

SpecBest == Init /\ [][BestNext]_vars

\* Closing line value in points under sequential calls
ClvNext == CalculateClv \/ TrackBetClv

SpecClv == Init /\ [][ClvNext]_vars

----------------------------------------------------------------------------
(* Claims about the ledger, checked under Spec (C6 under SpecPersist) *)

RECURSIVE StakeOfPending(_)
StakeOfPending(bs) ==
    IF bs = <<>> THEN Zero
    ELSE RAdd(IF Head(bs).status = "pending" THEN Head(bs).stake ELSE Zero,
              StakeOfPending(Tail(bs)))

RECURSIVE ProfitOfSettled(_)
ProfitOfSettled(bs) ==
    IF bs = <<>> THEN Zero
    ELSE RAdd(IF Head(bs).status = "settled" THEN Head(bs).profit ELSE Zero,
              ProfitOfSettled(Tail(bs)))

WithId(bs, bet_id) == {i \in 1..Len(bs) : bs[i].id = bet_id}

\* C1: after every place_bet and settle_bet call, successful or failed, the bankroll is
\* starting_bankroll - (stakes of the pending bets) + (profits of the settled bets)
C1_BankrollInvariant ==
    bankroll = RAdd(RSub(starting_bankroll, StakeOfPending(bets)), ProfitOfSettled(bets))

C1_Witness ==
    /\ last.op = "settle_bet" /\ last.ret.kind = "settlement"
    /\ \E i, j \in 1..Len(bets) :
          /\ bets[i].status = "pending"
          /\ bets[j].status = "settled" /\ bets[j].result = "win" /\ bets[j].profit # Zero

\* C2: settle_bet with an unknown id, with the id of a settled bet, or with a result
\* outside win/loss/push returns an error and changes neither the bankroll nor any bet
\* (stated in the contrapositive: a settle_bet step that is not an unchanged-ledger
\* error is the step of no call with such arguments)
C2_SettleRejections ==
    [][(/\ last'.op = "settle_bet"
        /\ ~(/\ last'.ret.kind = "error"
             /\ bankroll' = bankroll
             /\ bets' = bets
             /\ bet_counter' = bet_counter))
       => \A bet_id \in KnownIds, result \in Results :
            (\/ result \notin {"win", "loss", "push"}
             \/ WithId(bets, bet_id) = {}
             \/ \E i \in WithId(bets, bet_id) : bets[i].status = "settled")
            => \A cl \in ClosingLines :
                  ~settle_bet(bet_id, result, cl, WritableDir)]_vars

C2_Witness ==
    /\ last.op = "settle_bet" /\ last.ret.kind = "error"
    /\ last.ret.error = "Bet already settled"
    /\ \E i \in 1..Len(bets) : bets[i].status = "settled"

\* C3: a pending bet has profit 0 and no result; a settled bet keeps its status, result
\* and profit through every later place_bet and settle_bet call; no bet leaves the list
C3_OneWaySettlement ==
    [][/\ \A i \in 1..Len(bets') :
            /\ bets'[i].status \in {"pending", "settled"}
            /\ bets'[i].status = "pending"
               => bets'[i].profit = Zero /\ bets'[i].result = "None"
       /\ last'.op \in {"place_bet", "settle_bet"}
          => /\ Len(bets') >= Len(bets)
             /\ \A i \in 1..Len(bets) :
                   /\ bets'[i].id = bets[i].id
                   /\ bets[i].status = "settled"
                      => /\ bets'[i].status = "settled"
                         /\ bets'[i].result = bets[i].result
                         /\ bets'[i].profit = bets[i].profit]_vars

C3_Witness ==
    /\ Len(bets) = 2
    /\ bets[1].status = "settled" /\ bets[1].result = "loss"
    /\ last.op = "place_bet" /\ last.ret.kind = "id" /\ last.ret.id = bets[2].id

\* C4: place_bet returns None and changes nothing when a required field is missing, the
\* stake is <= 0 or the stake is above the bankroll; a stake equal to the bankroll is accepted
C4_PlacementGuards ==
    [][last'.op = "place_bet" =>
        \A bet \in DocumentedBets :
            place_bet(bet, WritableDir)
            => /\ (\/ RequiredSet \ DOMAIN bet # {}
                   \/ RLe(bet.stake, Zero)
                   \/ RLt(bankroll, bet.stake))
                  => /\ last'.ret.kind = "None"
                     /\ bankroll' = bankroll /\ bets' = bets /\ bet_counter' = bet_counter
               /\ (RequiredSet \subseteq DOMAIN bet /\ bet.stake = bankroll /\ RLt(Zero, bet.stake))
                  => /\ last'.ret.kind = "id"
                     /\ bankroll' = Zero]_vars

C4_Witness ==
    /\ last.op = "place_bet" /\ last.ret.kind = "None" /\ last.log = "Insufficient bankroll"
    /\ bankroll = Zero /\ Len(bets) = 2

\* C5: a win pays profit s*o/100 (o > 0) or s*100/|o| (o < 0) and raises the bankroll by
\* s + profit; a loss has profit -s and leaves the bankroll; a push has profit 0 and
\* raises the bankroll by s, the amount the placement took from it
C5_PayoutMath ==
    [][/\ last'.op = "settle_bet"
          => \A i \in 1..Len(bets) :
                (bets[i].status = "pending" /\ bets'[i].status = "settled")
                => LET s == bets[i].stake
                       o == bets[i].odds
                       profit == bets'[i].profit
                   IN  /\ bets'[i].result \in {"win", "loss", "push"}
                       /\ bets'[i].result = "win"
                          => /\ o > 0 => profit = RDiv(RMul(s, R(o)), R(100))
                             /\ o < 0 => profit = RDiv(RMul(s, R(100)), R(-o))
                             /\ bankroll' = RAdd(bankroll, RAdd(s, profit))
                       /\ bets'[i].result = "loss" => profit = RNeg(s) /\ bankroll' = bankroll
                       /\ bets'[i].result = "push" => profit = Zero /\ bankroll' = RAdd(bankroll, s)
                       /\ last'.ret.kind = "settlement" => last'.ret.profit = profit
       /\ (last'.op = "place_bet" /\ last'.ret.kind = "id")
          => bankroll = RAdd(bankroll', bets'[Len(bets')].stake)]_vars

C5_Witness ==
    /\ last.op = "settle_bet" /\ last.ret.kind = "settlement"
    /\ last.ret.result = "win" /\ last.ret.profit = <<1000, 11>>
    /\ \E i \in 1..Len(bets) : bets[i].odds = -110 /\ bets[i].result = "win"

\* C6: the ids place_bet assigns are distinct and strictly increasing in placement order,
\* a failed placement consumes none, and an id assigned after a reload of the snapshot
\* differs from every stored id
C6_UniqueIncreasingIds ==
    [][/\ \A i, j \in 1..Len(bets') :
            i < j => /\ bets'[i].id # bets'[j].id
                     /\ IdNumber(bets'[i].id) < IdNumber(bets'[j].id)
       /\ (last'.op = "place_bet" /\ last'.ret.kind = "id")
          => /\ \A i \in 1..Len(bets) :
                   /\ bets[i].id # last'.ret.id
                   /\ IdNumber(bets[i].id) < IdNumber(last'.ret.id)
             /\ Len(bets') = Len(bets) + 1
             /\ bets'[Len(bets')].id = last'.ret.id
       /\ (last'.op = "place_bet" /\ last'.ret.kind = "None")
          => bet_counter' = bet_counter]_vars

C6_Witness ==
    /\ from_snapshot
    /\ last.op = "place_bet" /\ last.ret.kind = "id"
    /\ Len(bets) >= 2 /\ bets[Len(bets)].id = last.ret.id

----------------------------------------------------------------------------
(* Claims about concurrent placements, checked under SpecConcurrent *)

\* C7: under any interleaving of two concurrent place_bet calls the accepted stakes
\* together never exceed the bankroll that was available, and the bankroll never
\* becomes negative
C7_AtomicCheckAndDeduct ==
    /\ RLe(Zero, bankroll)
    /\ RLe(StakeOfPending(bets), starting_bankroll)

----------------------------------------------------------------------------
(* Claims about the risk manager, checked under SpecRisk *)

Rejection(reason) == [kind |-> "tuple", allowed |-> FALSE, reason |-> reason]

\* C8: check_bet_allowed tests, in this order, the concurrent-bet limit, stake > bankroll,
\* the daily loss already at the limit, the bet exceeding the daily loss limit, and the
\* drawdown from the peak; the first failing check gives the rejection and its reason,
\* and the call approves only when all five pass
C8_CheckOrder ==
    rm_last.op = "check_bet_allowed" =>
        LET r == rm_last.before
            a == rm_last.args
            ret == rm_last.ret
            max_loss == RMul(r.starting_bankroll, r.max_daily_loss_percent)
            concurrent == a.pending_bet_count >= r.max_concurrent_bets
            insufficient == RLt(a.current_bankroll, a.proposed_stake)
            at_limit == RLt(a.today_pnl, Zero) /\ RLe(max_loss, RNeg(a.today_pnl))
            would_exceed == RLt(RAdd(RSub(a.today_pnl, a.proposed_stake), max_loss), Zero)
            drawdown == /\ RLt(Zero, r.peak_bankroll)
                        /\ RLe(RMul(r.max_total_drawdown_percent, r.peak_bankroll),
                               RSub(r.peak_bankroll, a.current_bankroll))
        IN  /\ concurrent => ret = Rejection("Max concurrent bets reached")
            /\ (~concurrent /\ insufficient) => ret = Rejection("Insufficient bankroll")
            /\ (~concurrent /\ ~insufficient /\ at_limit)
               => ret = Rejection("Daily loss limit reached")
            /\ (~concurrent /\ ~insufficient /\ ~at_limit /\ would_exceed)
               => ret = Rejection("Bet would exceed daily loss limit")
            /\ (~concurrent /\ ~insufficient /\ ~at_limit /\ ~would_exceed /\ drawdown)
               => ret = Rejection("Max drawdown reached")
            /\ (ret.kind = "tuple" /\ ret.allowed)
               => (~concurrent /\ ~insufficient /\ ~at_limit /\ ~would_exceed /\ ~drawdown)
            /\ (~concurrent /\ ~insufficient /\ ~at_limit /\ ~would_exceed /\ ~drawdown
                /\ RLt(Zero, r.peak_bankroll))
               => ret = [kind |-> "tuple", allowed |-> TRUE, reason |-> "OK"]

C8_Witness ==
    /\ rm_last.op = "check_bet_allowed"
    /\ rm_last.args.pending_bet_count >= rm_last.before.max_concurrent_bets
    /\ RLt(rm_last.args.current_bankroll, rm_last.args.proposed_stake)
    /\ RLe(rm_last.args.today_pnl, R(-1000))
    /\ rm_last.ret = Rejection("Max concurrent bets reached")

\* C9: should_halt_trading(bankroll) is true exactly when
\* (peak - bankroll) / peak >= max_total_drawdown_percent; at peak 10000 and limit 0.20
\* it is true for every bankroll <= 8000 and false at 8001
C9_HaltThreshold ==
    (rm_last.op = "should_halt_trading" /\ RLt(Zero, rm_last.before.peak_bankroll)) =>
        LET r == rm_last.before
            bk == rm_last.args.current_bankroll
        IN  /\ rm_last.ret.value
               <=> RLe(RMul(r.max_total_drawdown_percent, r.peak_bankroll),
                       RSub(r.peak_bankroll, bk))
            /\ (r.peak_bankroll = R(10000) /\ r.max_total_drawdown_percent = <<1, 5>>)
               => (rm_last.ret.value <=> RLe(bk, R(8000)))

C9_Witness ==
    /\ rm_last.op = "should_halt_trading"
    /\ rm_last.before.peak_bankroll = R(10000)
    /\ rm_last.args.current_bankroll = R(8000)
    /\ rm_last.ret.value

\* C10: calculate_position_size returns 0 when the fractional Kelly value
\* f = kelly_fraction * (b*p - q)/b is <= 0 and bankroll * min(f, 0.05) otherwise; for a
\* bankroll >= 0 the stake is never negative and never above 5% of the bankroll
C10_KellySizing ==
    (rm_last.op = "calculate_position_size" /\ rm_last.args.odds # 0) =>
        LET r == rm_last.before
            bk == rm_last.args.current_bankroll
            o == rm_last.args.odds
            p == rm_last.args.win_probability
            q == RSub(R(1), p)
            b == IF o > 0 THEN <<o, 100>> ELSE <<100, -o>>
            f == RMul(r.kelly_fraction, RDiv(RSub(RMul(b, p), q), b))
            size == rm_last.ret.value
        IN  /\ rm_last.ret.kind = "number"
            /\ RLe(f, Zero) => size = Zero
            /\ RLt(Zero, f) => size = RMul(bk, IF RLt(f, <<1, 20>>) THEN f ELSE <<1, 20>>)
            /\ RLe(Zero, bk) => RLe(Zero, size) /\ RLe(RMul(size, R(20)), bk)

C10_Witness ==
    /\ rm_last.op = "calculate_position_size"
    /\ rm_last.args.win_probability = <<1, 2>> /\ rm_last.args.odds = -110
    /\ rm_last.args.current_bankroll = R(10000)
    /\ rm_last.ret.kind = "number" /\ rm_last.ret.value = Zero

----------------------------------------------------------------------------
(* Claims about settlement outcomes and the closing line, checked under Spec *)

\* C16: settle_bet on a pending bet with a result of win, loss or push does not raise
\* and returns a settlement, for every odds value that place_bet accepted
C16_SettleNeverRaises ==
    [][last'.op = "settle_bet" =>
        \A bet_id \in KnownIds, result \in {"win", "loss", "push"}, cl \in ClosingLines :
            (/\ \E i \in WithId(bets, bet_id) : bets[i].status = "pending"
             /\ settle_bet(bet_id, result, cl, WritableDir))
            => last'.ret.kind = "settlement"]_vars

\* implied probability of American odds, as the CLV formula states it
ImpliedProb(o) == IF o > 0 THEN <<100, o + 100>> ELSE <<Abs(o), Abs(o) + 100>>

\* C19: _calculate_clv(entry, closing) = (closing_prob - entry_prob) / entry_prob * 100,
\* positive exactly when the entry decimal odds exceed the closing decimal odds; a
\* settlement with a closing line stores closing_line and clv on the bet, a settlement
\* without one stores neither
C19_ClvOnSettlement ==
    [][last'.op = "settle_bet" =>
        \A i \in 1..Len(bets) :
            (bets[i].status = "pending" /\ bets'[i].status = "settled")
            => \A cl \in ClosingLines :
                  (\E result \in Results : settle_bet(bets[i].id, result, cl, WritableDir))
                  => IF cl # None
                     THEN /\ bets'[i].closing_line = cl
                          /\ "clv" \in DOMAIN bets'[i]
                          /\ LET ep == Norm(ImpliedProb(bets[i].odds)[1],
                                            ImpliedProb(bets[i].odds)[2])
                                 cp == Norm(ImpliedProb(cl[1])[1], ImpliedProb(cl[1])[2])
                             IN  /\ bets'[i].clv = RMul(RDiv(RSub(cp, ep), ep), R(100))
                                 /\ RLt(Zero, bets'[i].clv)
                                    <=> RLt(DecimalOdds(cl[1]), DecimalOdds(bets[i].odds))
                     ELSE /\ bets'[i].closing_line = None
                          /\ "clv" \notin DOMAIN bets'[i]]_vars

----------------------------------------------------------------------------
(* Claims about failed snapshot writes, checked under SpecPersist *)

\* C17: when the write of the snapshot fails during place_bet or settle_bet the call
\* returns its normal result, nothing is raised, and bankroll, bets and bet_counter are
\* those of the completed operation
C17_FailedWriteKeepsMemory ==
    [][save_failures' > save_failures =>
        /\ last'.ret.kind \in {"id", "settlement"}
        /\ last'.op = "place_bet"
           => \E bet \in PersistBets :
                 /\ ~PlaceRejected(bet, bankroll)
                 /\ bet_counter' = bet_counter + 1
                 /\ last'.ret.id = BetId(bet_counter')
                 /\ bankroll' = RSub(bankroll, bet.stake)
                 /\ bets' = Append(bets, BetRecord(last'.ret.id, bet))
        /\ last'.op = "settle_bet"
           => \E i \in 1..Len(bets) :
                 /\ bets[i].status = "pending" /\ bets[i].id = last'.ret.bet_id
                 /\ bets' = [bets EXCEPT ![i] = [bets[i] EXCEPT !.status = "settled",
                                                   !.result = last'.ret.result,
                                                   !.profit = last'.ret.profit,
                                                   !.settled_at = Some("t")]]
                 /\ last'.ret.profit = SettleProfit(bets[i], last'.ret.result)
                 /\ bankroll' = RAdd(bankroll, SettleCredit(bets[i], last'.ret.result,
                                                            last'.ret.profit))
                 /\ last'.ret.bankroll = bankroll'
                 /\ bet_counter' = bet_counter]_vars

\* the last settlement returned normally while its write left no readable snapshot
C17_Witness ==
    /\ save_failures > 0
    /\ state_file.kind = "corrupt"
    /\ last.op = "settle_bet" /\ last.ret.kind = "settlement" /\ last.ret.result = "win"

----------------------------------------------------------------------------
(* Claims about the bot's ledger and the peak, checked under SpecBot and SpecEngine *)

\* C11: after every settlement the peak bankroll of the risk manager is at least the
\* bankroll of the ledger: a settlement that lifts the bankroll above the peak lifts
\* the peak with it
C11_PeakCoversBankroll ==
    engine_last.op = "_settle_pending_bets"
    => RLe(engine.current_bankroll, rm.peak_bankroll)

RECURSIVE SumOf(_, _)
SumOf(bs, field) ==
    IF bs = <<>> THEN Zero ELSE RAdd(Head(bs)[field], SumOf(Tail(bs), field))

\* C20: in PaperTradingEngine the profit of a won bet is the winnings alone, and
\* current_bankroll = starting_bankroll - (stakes of the pending bets)
\*                    + (profits of the completed bets)
C20_EngineBankrollInvariant ==
    /\ \A i \in 1..Len(engine.completed_bets) :
          LET b == engine.completed_bets[i]
          IN  b.result = "win"
              => b.profit = RMul(b.stake, IF b.odds > 0 THEN <<b.odds, 100>>
                                          ELSE <<100, Abs(b.odds)>>)
    /\ engine.current_bankroll =
          RAdd(RSub(engine.starting_bankroll, SumOf(engine.bets, "stake")),
               SumOf(engine.completed_bets, "profit"))

----------------------------------------------------------------------------
(* Claims about the arbitrage strategies, checked under SpecArb and SpecSportsArb *)

\* 1/decimal(odds): the implied probability of an American price
Implied(o) == Norm(ImpliedProb(o)[1], ImpliedProb(o)[2])

\* C12: _calculate_arbitrage reports is_arbitrage exactly when
\* 1/decimal(odds1) + 1/decimal(odds2) < 1, with profit_margin 1 - sum then and 0
\* otherwise; +120/+120 and +150/+150 are arbitrages, -110/-110 is not
C12_ArbitrageTest ==
    (st_last.op = "ArbitrageStrategy._calculate_arbitrage" /\ st_last.ret.kind = "dict") =>
        LET o1 == st_last.args.odds1
            o2 == st_last.args.odds2
            total == RAdd(Implied(o1), Implied(o2))
            r == st_last.ret.value
        IN  /\ r.is_arbitrage <=> RLt(total, R(1))
            /\ r.profit_margin = IF RLt(total, R(1)) THEN RSub(R(1), total) ELSE Zero
            /\ (o1 = o2 /\ o1 \in {120, 150}) => r.is_arbitrage
            /\ (o1 = -110 /\ o2 = -110) => ~r.is_arbitrage

C12_Witness ==
    /\ st_last.op = "ArbitrageStrategy._calculate_arbitrage"
    /\ st_last.args.odds1 = 100 /\ st_last.args.odds2 = 100
    /\ st_last.ret.kind = "dict"
    /\ ~st_last.ret.value.is_arbitrage /\ st_last.ret.value.profit_margin = Zero

\* the split of a total over two legs that the claim states, and what it guarantees
EqualizedSplit(stake1, stake2, total, o1, o2) ==
    /\ stake1 = RMul(total, RDiv(Implied(o1), RAdd(Implied(o1), Implied(o2))))
    /\ stake2 = RMul(total, RDiv(Implied(o2), RAdd(Implied(o1), Implied(o2))))
    /\ RAdd(stake1, stake2) = total
    /\ RMul(stake1, DecimalOdds(o1)) = RMul(stake2, DecimalOdds(o2))
    /\ RLt(RAdd(Implied(o1), Implied(o2)), R(1))
       => /\ RLt(total, RMul(stake1, DecimalOdds(o1)))
          /\ RLt(total, RMul(stake2, DecimalOdds(o2)))

\* C13: the stakes of _calculate_bet_sizes and of calculate_optimal_stakes, before the
\* rounding to cents, are total * implied_prob_i / (implied_prob_1 + implied_prob_2),
\* sum to the total and pay the same on either side, more than the total for an arbitrage
C13_EqualizedStakes ==
    /\ (st_last.op = "ArbitrageStrategy._calculate_bet_sizes" /\ st_last.ret.kind = "dict")
       => EqualizedSplit(st_last.ret.exact.bet1, st_last.ret.exact.bet2,
                         st_last.args.total_stake, st_last.args.odds1, st_last.args.odds2)
    /\ st_last.op = "SportsArbitrageStrategy.calculate_optimal_stakes"
       => EqualizedSplit(st_last.ret.exact.stake_a, st_last.ret.exact.stake_b,
                         st_last.ret.exact.total_stake,
                         st_last.args.opportunity.side_a.odds,
                         st_last.args.opportunity.side_b.odds)

\* C14: find_arbitrage returns no opportunity whose two legs name the same bookmaker,
\* and validate_opportunity returns invalid when side_a and side_b name the same book
C14_DistinctBooks ==
    /\ (st_last.op = "ArbitrageStrategy.find_arbitrage" /\ st_last.ret.kind = "list")
       => \A i \in 1..Len(st_last.ret.value) :
             st_last.ret.value[i].leg1.bookmaker # st_last.ret.value[i].leg2.bookmaker
    /\ (/\ st_last.op = "SportsArbitrageStrategy.validate_opportunity"
        /\ st_last.args.arb.side_a.book = st_last.args.arb.side_b.book)
       => ~st_last.ret.value.valid

\* the bookmakers with every market but one left out
OnlyMarket(bookmakers, market) ==
    [i \in 1..Len(bookmakers) |->
        [name |-> bookmakers[i].name,
         h2h |-> IF market = "h2h" THEN bookmakers[i].h2h ELSE <<>>,
         spreads |-> IF market = "spreads" THEN bookmakers[i].spreads ELSE <<>>,
         totals |-> IF market = "totals" THEN bookmakers[i].totals ELSE <<>>]]

ZeroFree(bookmakers, market) ==
    \A i \in 1..Len(bookmakers) :
        \A k \in 1..Len(bookmakers[i][market]) : bookmakers[i][market][k].price # 0

BetTypeOf(market) ==
    CASE market = "h2h" -> "moneyline" [] market = "spreads" -> "spread" [] OTHER -> "total"

\* C15: a quote with price 0 makes neither scan raise; no opportunity is built on it,
\* and the markets without such a quote give the opportunities they give when
\* scanned alone
C15_ZeroPriceSkipped ==
    /\ st_last.op = "SportsArbitrageStrategy.find_arbitrage_opportunities"
       => /\ st_last.ret.kind = "list"
          /\ \A i \in 1..Len(st_last.ret.value) :
                st_last.ret.value[i].side_a.odds # 0 /\ st_last.ret.value[i].side_b.odds # 0
    /\ st_last.op = "ArbitrageStrategy.find_arbitrage"
       => /\ st_last.ret.kind = "list"
          /\ \A i \in 1..Len(st_last.ret.value) :
                st_last.ret.value[i].leg1.odds # 0 /\ st_last.ret.value[i].leg2.odds # 0
          /\ \A market \in {"h2h", "spreads", "totals"} :
                ZeroFree(st_last.args.bookmakers, market)
                => SelectSeq(st_last.ret.value,
                             LAMBDA opp : opp.bet_type = BetTypeOf(market))
                   = find_arbitrage(DefaultMinProfitMargin, ArbGame,
                                    OnlyMarket(st_last.args.bookmakers, market)).value

----------------------------------------------------------------------------
(* Claims about closing line value in points, checked under SpecClv *)

\* the line moved in the bettor's favour: the home line fell for a home bet, rose for
\* a bet on the other side
MovedInFavour(side, bet_line, closing_line) ==
    IF side = "home" THEN RLt(closing_line, bet_line) ELSE RLt(bet_line, closing_line)

\* C18: calculate_clv and track_bet_clv give a positive value exactly when the line
\* moved in the bettor's favour; a home bet at -5.5 that closes at -8.0 gives +2.5
C18_ClvPointsSign ==
    /\ st_last.op = "CLVStrategy.calculate_clv"
       => LET a == st_last.args
              clv == st_last.ret[1]
          IN  /\ RLt(Zero, clv) <=> MovedInFavour(a.side, a.bet_line, a.closing_line)
              /\ (a.side = "home" /\ a.bet_line = <<-11, 2>> /\ a.closing_line = R(-8))
                 => clv = <<5, 2>>
    /\ st_last.op = "CLVTracker.track_bet_clv"
       => LET a == st_last.args
              clv == clv_records[Len(clv_records)].clv
          IN  /\ RLt(Zero, clv) <=> MovedInFavour(a.side, a.bet_line, a.closing_line)
              /\ (a.side = "home" /\ a.bet_line = <<-11, 2>> /\ a.closing_line = R(-8))
                 => clv = <<5, 2>>

----------------------------------------------------------------------------
(* Claims about the ids of PaperTradingEngine, checked under SpecEngine *)

EngineAllBets(e) == e.bets \o e.completed_bets

\* C21: the ids of the pending and the completed bets of the engine are pairwise
\* different, so that an id names one bet, and a settle_bet on the id of a completed
\* bet changes nothing
C21_EngineIdsUnique ==
    /\ \A i, j \in 1..Len(EngineAllBets(engine)) :
          i # j => EngineAllBets(engine)[i].id # EngineAllBets(engine)[j].id
    /\ \A bet_id \in EngineIds, won \in BOOLEAN, cl \in EngineClosingLines :
          (\E i \in 1..Len(engine.completed_bets) : engine.completed_bets[i].id = bet_id)
          => engine_settle_bet(engine, bet_id, won, cl).engine = engine

----------------------------------------------------------------------------
(* Claims about the bot's run loop, checked under SpecRun *)

\* C22: a step of the bot that places a bet on the engine is a step in which
\* check_bet_allowed approved the engine's bankroll and pending count, with the pending
\* bets below max_concurrent_bets and the drawdown from the recorded peak below
\* max_total_drawdown_percent; after run() has seen should_halt_trading true no bet is placed
C22_PlacementsGated ==
    [][/\ EnginePlaced(engine') > EnginePlaced(engine)
          => /\ rm_last'.op = "check_bet_allowed"
             /\ rm_last'.ret.kind = "tuple" /\ rm_last'.ret.allowed
             /\ rm_last'.args.current_bankroll = engine.current_bankroll
             /\ rm_last'.args.pending_bet_count = Len(engine.bets)
             /\ Len(engine.bets) < rm.max_concurrent_bets
             /\ RLt(Drawdown(rm, engine.current_bankroll), rm.max_total_drawdown_percent)
       /\ bot.halt_seen => EnginePlaced(engine') = EnginePlaced(engine)]_vars

C22_Witness ==
    /\ bot.halt_seen /\ bot.at = "done" /\ bot.day_count < DurationDays
    /\ EnginePlaced(engine) > 0
    /\ engine_last.op = "_settle_pending_bets"
    /\ rm_last.op = "should_halt_trading" /\ rm_last.ret.value


\* the realised profit and loss of the settled bets: the winnings of the won bets less
\* the stakes of the lost ones
RECURSIVE RealisedPnl(_)
RealisedPnl(completed) ==
    IF completed = <<>> THEN Zero
    ELSE LET b == Head(completed)
         IN  RAdd(IF b.result = "win"
                  THEN RMul(b.stake, IF b.odds > 0 THEN <<b.odds, 100>>
                                     ELSE <<100, Abs(b.odds)>>)
                  ELSE RNeg(b.stake),
                  RealisedPnl(Tail(completed)))

\* C23: when the bot places a bet, the realised loss of the day is below
\* starting_bankroll * max_daily_loss_percent, losing the new stake would not take the
\* day's profit and loss below that limit, and the today_pnl handed to check_bet_allowed
\* is the realised profit and loss as of the last settlement
C23_DailyLossGate ==
    [][EnginePlaced(engine') > EnginePlaced(engine)
       => LET pnl == RealisedPnl(engine.completed_bets)
              limit == RMul(rm.starting_bankroll, rm.max_daily_loss_percent)
              stake == rm_last'.args.proposed_stake
          IN  /\ rm_last'.args.today_pnl = pnl
              /\ RLt(RNeg(limit), pnl)
              /\ RLe(RNeg(limit), RSub(pnl, stake))]_vars

----------------------------------------------------------------------------
(* Claims about the state of the RiskManager, checked under SpecRisk *)

\* C24: peak_bankroll never decreases; the RiskManager changes only in a
\* check_bet_allowed call that approves with current_bankroll > peak_bankroll, where
\* the peak becomes that bankroll; rejecting calls, calculate_position_size and
\* should_halt_trading leave it as it was
C24_PeakMonotone ==
    [][/\ RLe(rm.peak_bankroll, rm'.peak_bankroll)
       /\ rm' # rm
          => /\ rm_last'.op = "check_bet_allowed"
             /\ rm_last'.ret.kind = "tuple" /\ rm_last'.ret.allowed
             /\ RLt(rm.peak_bankroll, rm_last'.args.current_bankroll)
             /\ rm' = [rm EXCEPT !.peak_bankroll = rm_last'.args.current_bankroll]
       /\ (/\ rm_last'.op = "check_bet_allowed"
           /\ rm_last'.ret.kind = "tuple" /\ rm_last'.ret.allowed
           /\ rm_last' # rm_last
           /\ RLt(rm.peak_bankroll, rm_last'.args.current_bankroll))
          => rm'.peak_bankroll = rm_last'.args.current_bankroll]_vars

C24_Witness ==
    /\ rm.peak_bankroll = R(12000) /\ rm.starting_bankroll = R(10000)
    /\ rm_last.op = "check_bet_allowed"
    /\ rm_last.ret.kind = "tuple" /\ rm_last.ret.allowed
    /\ rm_last.args.current_bankroll = R(12000)
    /\ rm_last.before.peak_bankroll = R(10000)

----------------------------------------------------------------------------
(* Claims about the lines the detectors pair, checked under SpecArb and SpecSportsArb *)

\* a quote of the scanned bookmakers that a leg of an opportunity was built from, at the
\* point its selection label prints
LegQuoted(bookmakers, market, name, leg) ==
    \E i \in 1..Len(Entries(bookmakers, market)) :
        LET en == Entries(bookmakers, market)[i]
        IN  /\ en.name = name /\ en.bookmaker = leg.bookmaker
            /\ en.price = leg.odds /\ en.point = leg.selection[2]

\* C25: the two legs of a spread opportunity are quotes at opposite points (the away
\* point is minus the home point, and is the point the label of leg2 shows), and the
\* two legs of a total opportunity are quotes at one and the same total
C25_OppositeSidesOfOneLine ==
    /\ (st_last.op = "ArbitrageStrategy.find_arbitrage" /\ st_last.ret.kind = "list")
       => \A i \in 1..Len(st_last.ret.value) :
             LET opp == st_last.ret.value[i]
                 bookmakers == st_last.args.bookmakers
             IN  /\ opp.bet_type = "spread"
                    => /\ opp.leg2.selection[2] = RNeg(opp.leg1.selection[2])
                       /\ LegQuoted(bookmakers, "spreads", ArbGame.home_team, opp.leg1)
                       /\ LegQuoted(bookmakers, "spreads", ArbGame.away_team, opp.leg2)
                 /\ opp.bet_type = "total"
                    => /\ opp.leg2.selection[2] = opp.leg1.selection[2]
                       /\ LegQuoted(bookmakers, "totals", "Over", opp.leg1)
                       /\ LegQuoted(bookmakers, "totals", "Under", opp.leg2)
    /\ st_last.op = "SportsArbitrageStrategy.find_arbitrage_opportunities"
       => \A i \in 1..Len(st_last.ret.value) :
             LET opp == st_last.ret.value[i]
             IN  /\ opp.type = "spread" => opp.side_b.line = RNeg(opp.side_a.line)
                 /\ opp.type = "total" => opp.side_b.line = opp.side_a.line


\* C26: the quote selected as best for a side is one of the quotes of that side and no
\* quote of the side has higher decimal odds, whatever the signs of the prices
C26_BestIsHighestDecimal ==
    st_last.op \in {"ArbitrageStrategy._check_moneyline_arbitrage",
                    "SportsArbitrageStrategy._check_moneyline_arbitrage"}
    => LET prices == st_last.args.prices
           home == st_last.ret.best_home
           away == st_last.ret.best_away
       IN  /\ home # None /\ away # None
           /\ \E i \in 1..Len(prices) : home[1].odds = prices[i]
           /\ \E i \in 1..Len(prices) : away[1].odds = Mirror(prices, i)
           /\ \A i \in 1..Len(prices) :
                 /\ RLe(DecimalOdds(prices[i]), DecimalOdds(home[1].odds))
                 /\ RLe(DecimalOdds(Mirror(prices, i)), DecimalOdds(away[1].odds))

C26_Witness ==
    /\ st_last.op = "SportsArbitrageStrategy._check_moneyline_arbitrage"
    /\ st_last.args.prices = <<-110, 150, -300>>
    /\ st_last.ret.best_home[1].odds = 150 /\ st_last.ret.best_home[1].book = "draftkings"
    /\ st_last.ret.best_away[1].odds = 150

----------------------------------------------------------------------------
(* Claims about the stored bet record, checked under SpecExtraKeys *)

\* C27: the record that an accepted place_bet stores is pending, with result None,
\* profit 0, no settlement time and the id the call returns, whatever keys the caller's
\* dictionary carries besides the documented ones
C27_StoredAsPending ==
    (last.op = "place_bet" /\ last.ret.kind = "id") =>
        LET b == bets[Len(bets)]
        IN  /\ b.status = "pending"
            /\ b.result = "None"
            /\ b.profit = Zero
            /\ b.settled_at = None
            /\ b.id = last.ret.id

----------------------------------------------------------------------------
(* Claims about the statistics of CLVTracker, checked under SpecClvStats and
   SpecClvHistory *)

CountClv(P(_)) == Cardinality({i \in 1..Len(clv_records) : P(clv_records[i].clv)})

\* C28: get_clv_distribution counts in highly_positive the records with clv > 2, in
\* positive those with 0 < clv <= 2, in negative those with -2 <= clv < 0 and in
\* highly_negative those with clv < -2
C28_BucketIntervals ==
    (st_last.op = "CLVTracker.get_clv_distribution" /\ clv_records # <<>>) =>
        LET buckets == st_last.ret.buckets
        IN  /\ buckets["highly_positive"] = CountClv(LAMBDA clv : RLt(R(2), clv))
            /\ buckets["positive"] = CountClv(LAMBDA clv : RLt(Zero, clv) /\ RLe(clv, R(2)))
            /\ buckets["negative"] = CountClv(LAMBDA clv : RLe(R(-2), clv) /\ RLt(clv, Zero))
            /\ buckets["highly_negative"] = CountClv(LAMBDA clv : RLt(clv, R(-2)))


\* the average the docstring describes: over the last N matching records only
TrailingAverage(matching, N) ==
    IF matching = <<>> THEN Zero
    ELSE LET n == IF Len(matching) < N THEN Len(matching) ELSE N
             IN  Round2(RDiv(SumRange(matching, Len(matching) - n + 1, Len(matching)), R(n)))

TrailingWindows == 50..100

\* C29: calculate_average_clv, and each per-strategy and per-sport average built on it,
\* is the average of the trailing N most recent matching records for some N in 50..100
C29_TrailingWindowAverage ==
    /\ st_last.op = "CLVTracker.calculate_average_clv" =>
          \E N \in TrailingWindows :
              st_last.ret[1] = TrailingAverage(
                  Matching(clv_records, st_last.args.strategy, st_last.args.sport), N)
    /\ st_last.op = "CLVTracker.get_clv_by_strategy" =>
          \E N \in TrailingWindows :
              \A strategy \in DOMAIN st_last.ret :
                  st_last.ret[strategy] =
                      TrailingAverage(Matching(clv_records, Some(strategy), None), N)
    /\ st_last.op = "CLVTracker.get_clv_by_sport" =>
          \E N \in TrailingWindows :
              \A sport \in DOMAIN st_last.ret :
                  st_last.ret[sport] =
                      TrailingAverage(Matching(clv_records, None, Some(sport)), N)

----------------------------------------------------------------------------
(* Claim about the sign of the paper bankroll, checked under Spec *)

\* C30: from a non-negative starting bankroll, the bankroll of PaperTrader is never
\* negative after any sequential series of place_bet and settle_bet calls
C30_BankrollNeverNegative ==
    RLe(Zero, starting_bankroll) => RLe(Zero, bankroll)

\* a placement whose stake is the whole remaining bankroll was accepted
C30_Witness ==
    /\ RLe(Zero, starting_bankroll)
    /\ last.op = "place_bet" /\ last.ret.kind = "id"
    /\ bankroll = Zero
    /\ \E i \in 1..Len(bets) : bets[i].status = "settled"

====
